---- MODULE Spec2Model ----
(***************************************************************************)
(* Model of the authentication session manager of src/src/auth/auth.ts:    *)
(* the AuthService class, the module-level singleton and the exported      *)
(* wrapper functions, driven by a nondeterministic server.                 *)
(*                                                                         *)
(* Every async method is cut at its suspension points (the awaits of a     *)
(* fetch and of the body read that follows it): one action runs the        *)
(* synchronous code from the call to the first fetch, one action runs the  *)
(* code from a response to the next fetch or to the end of the method.     *)
(*                                                                         *)
(* The footer component of src/unnamed/part_002 is the subscriber of the   *)
(* AUTH_STATE_CHANGED event: its listener, its state and its loads.        *)
(***************************************************************************)
EXTENDS Integers, Sequences, FiniteSets, TLC

VARIABLES
    authServiceInstance,  \* auth.ts:571, 0 is null, else an index of instances
    instances,            \* the AuthService objects created so far
    cookies,              \* the cookie store (document.cookie), by cookie name
    lastEvent,            \* the last AUTH_STATE_CHANGED event dispatched
    task,                 \* the callers: position and locals of the call each runs
    footer                \* the footer component (src/unnamed/part_002)

vars == <<authServiceInstance, instances, cookies, lastEvent, task, footer>>

-----------------------------------------------------------------------------
(* Bounds *)

MaxTasks == 2      \* callers
MaxInits == 2      \* calls of initAuth in one behaviour
MaxLoads == 1      \* runs of loadUserData and loadCredits of the footer under way

\* the callers of the application
Tasks == 1..MaxTasks

\* the runs of the footer's loads, and the callers they are: each run calls
\* getUserProfile at most once and getUserCredits at most once
Loads == 1..MaxLoads
ProfileTask(l) == MaxTasks + 2 * l - 1
CreditsTask(l) == MaxTasks + 2 * l
Callers == 1..(MaxTasks + 2 * MaxLoads)

-----------------------------------------------------------------------------
(* JavaScript values *)

\* null or undefined where an object is expected
Null == [null |-> TRUE]
\* undefined where a string is expected: a property the object does not have
Absent == "<undefined>"
\* the empty string: a property that is there and is falsy
Empty == ""

\* obj.f
Get(obj, f) == IF f \in DOMAIN obj THEN obj[f] ELSE Absent

\* obj.f where f holds an object
GetObj(obj, f) == IF f \in DOMAIN obj THEN obj[f] ELSE Null

\* !!v for a string or undefined
Truthy(v) == v # Absent /\ v # Empty

\* a || b for strings
Or(a, b) == IF Truthy(a) THEN a ELSE b

\* an object literal holding the properties among access_token, token,
\* refresh_token, refreshToken whose value is not Absent
TokenObject(at, tk, rt, rtk) ==
    LET v(n) == CASE n = "access_token"  -> at
                  [] n = "token"         -> tk
                  [] n = "refresh_token" -> rt
                  [] n = "refreshToken"  -> rtk
        dom == {n \in {"access_token", "token", "refresh_token", "refreshToken"} :
                    v(n) # Absent}
    IN  [n \in dom |-> v(n)]

-----------------------------------------------------------------------------
(* The server: what a fetch can come back with *)

\* bodies of POST /auth/signup, /auth/login, /auth/google-sso, /auth/refresh:
\* each of the four token properties missing or set, access_token also
\* empty, in the flat shape and nested under data
TokenObjects ==
    {TokenObject(at, tk, rt, rtk) :
        at \in {Absent, Empty, "T1"}, tk \in {Absent, "T2"},
        rt \in {Absent, "R1"}, rtk \in {Absent, "R2"}}

AuthBodies ==
    {("message" :> "Success") @@ o : o \in TokenObjects}
      \cup {[message |-> "Success", data |-> o] : o \in TokenObjects}

\* users the server knows
U1 == [id |-> "1", email |-> "a@x.com", name |-> "A"]
U2 == [id |-> "2", email |-> "b@x.com", name |-> "B", emailVerified |-> TRUE]
Users == {U1, U2}
Emails == {"a@x.com", "b@x.com"}

\* bodies of GET /user: User or {data: User}
ProfileBodies == Users \cup {[data |-> u] : u \in Users}

\* bodies of the other successful requests
PlainBodies == {[success |-> TRUE, message |-> "ok"]}

\* bodies of a non-2xx response: with a message and without
ErrorBodies == {[message |-> "Invalid credentials"], [code |-> "E"]}

\* fetch rejected: no response
NetworkFailure == [neterr |-> TRUE]
\* a response: response.ok, whether response.json() resolves, and its value
Http(ok, parses, body) ==
    [neterr |-> FALSE, ok |-> ok, parses |-> parses, body |-> body]

Responses(bodies) ==
    {NetworkFailure}
      \cup {Http(FALSE, TRUE, b) : b \in ErrorBodies}
      \cup {Http(FALSE, FALSE, Null), Http(TRUE, FALSE, Null)}
      \cup {Http(TRUE, TRUE, b) : b \in bodies}

\* what fetch and response.json() throw
NetworkError == "TypeError: Failed to fetch"
SyntaxError == "SyntaxError: Unexpected token"

-----------------------------------------------------------------------------
(* cookies.ts: the cookie store *)

CookieNames == {"redrob_auth_token", "redrob_refresh_token", "my_access_token"}

setCookie(cks, name, value) == [cks EXCEPT ![name] = value]

\* null when the cookie is not set
getCookie(cks, name) == cks[name]

deleteCookie(cks, name) == [cks EXCEPT ![name] = Absent]

-----------------------------------------------------------------------------
(* AuthConfig and the AuthService constructor *)

Configs ==
    {[apiBaseUrl |-> "https://api.redrob.io"],
     [apiBaseUrl |-> "https://api.example.com", tokenKey |-> "my_access_token"]}

\* AuthService that always takes the default cookie names
AuthServiceDefaultNames(config) ==
    [config          |-> config,
     tokenKey        |-> "redrob_auth_token",
     refreshTokenKey |-> "redrob_refresh_token",
     currentUser     |-> Null]

AuthService(config) ==
    [config          |-> config,
     tokenKey        |-> Or(Get(config, "tokenKey"), "redrob_auth_token"),
     refreshTokenKey |-> Or(Get(config, "refreshTokenKey"), "redrob_refresh_token"),
     currentUser     |-> Null]

-----------------------------------------------------------------------------
(* Synchronous methods of AuthService, on instance inst and cookie store cks *)

getToken(cks, inst) == getCookie(cks, inst.tokenKey)

\* isAuthenticatedOf that also wants a cached user
isAuthenticatedOfWithUser(cks, inst) ==
    Truthy(getToken(cks, inst)) /\ inst.currentUser # Null

isAuthenticatedOf(cks, inst) == Truthy(getToken(cks, inst))

\* the exported isAuthenticated(): authServiceInstance?.isAuthenticated() || false
isAuthenticated(cks, insts, cur) ==
    IF cur = 0 THEN FALSE ELSE isAuthenticatedOf(cks, insts[cur])

\* the exported getCurrentUser(): authServiceInstance?.getCurrentUser() || null
getCurrentUser(insts, cur) ==
    IF cur = 0 THEN Null ELSE insts[cur].currentUser

\* The event dispatchAuthStateChange builds, with what a listener that calls
\* isAuthenticated() and getCurrentUser() while it is dispatched gets.
dispatchAuthStateChange(authenticated, user, cks, insts, cur) ==
    [authenticated |-> authenticated,
     user          |-> user,
     seenAuth      |-> isAuthenticated(cks, insts, cur),
     seenUser      |-> getCurrentUser(insts, cur)]

\* const data = result.data || result
DataOf(result) ==
    IF GetObj(result, "data") # Null THEN result.data ELSE result

\* AccessTokenOf with the two fields in the other order
AccessTokenOfCamelFirst(result) ==
    Or(Get(DataOf(result), "token"), Get(DataOf(result), "access_token"))

\* const accessToken = data.access_token || data.token
AccessTokenOf(result) ==
    Or(Get(DataOf(result), "access_token"), Get(DataOf(result), "token"))

\* const refreshToken = data.refresh_token || data.refreshToken
RefreshTokenOf(result) ==
    Or(Get(DataOf(result), "refresh_token"), Get(DataOf(result), "refreshToken"))

\* ErrorMessage that never reads the body
ErrorMessageFallbackOnly(resp, fallback) == fallback

\* error.message || fallback, error being the body of a non-2xx response or
\* {message: fallback} when the body does not parse
ErrorMessage(resp, fallback) ==
    IF resp.parses THEN Or(Get(resp.body, "message"), fallback) ELSE fallback

\* StoreTokens with the two cookie names taken for one another
StoreTokensMisnamed(cks, inst, accessToken, refreshToken) ==
    LET c1 == setCookie(cks, inst.refreshTokenKey, accessToken)
    IN  IF Truthy(refreshToken) THEN setCookie(c1, inst.tokenKey, refreshToken)
        ELSE c1

\* setCookie(tokenKey, accessToken, 7); if (refreshToken) setCookie(refreshTokenKey, ...)
StoreTokens(cks, inst, accessToken, refreshToken) ==
    LET c1 == setCookie(cks, inst.tokenKey, accessToken)
    IN  IF Truthy(refreshToken) THEN setCookie(c1, inst.refreshTokenKey, refreshToken)
        ELSE c1

\* ClearTokens that leaves the refresh-token cookie
ClearTokensAccessOnly(cks, inst) == deleteCookie(cks, inst.tokenKey)

\* deleteCookie(tokenKey); deleteCookie(refreshTokenKey)
ClearTokens(cks, inst) ==
    deleteCookie(deleteCookie(cks, inst.tokenKey), inst.refreshTokenKey)

\* this.currentUser = user, on instance i
SetCurrentUser(insts, i, user) == [insts EXCEPT ![i].currentUser = user]

-----------------------------------------------------------------------------
(* Callers *)

\* a promise settled
Resolved(value) == [state |-> "resolved", value |-> value]
Rejected(error) == [state |-> "rejected", error |-> error]
Pending == [state |-> "pending"]

NotInitialized == "Auth service not initialized. Call initAuth() first."

\* A caller: pc is where its call stands ("fetch": a request is out, "body":
\* its response is there; "profile" and "profileBody": the same for the request
\* of the getUserProfile a method calls; "done": the promise settled), self the
\* instance the method runs on, accessToken and refreshToken the constants of
\* those names in the method, response the last response the call got and
\* has not left behind by sending its next request, requests and emitted the
\* fetches sent and the events dispatched by the call so far, wasAuthenticated
\* what isAuthenticated() answered as the call began, bearer the token in the
\* Authorization header of the request the call sent last, Absent when it
\* had none.
IdleTask ==
    [pc |-> "idle", op |-> "none", self |-> 0, arg |-> Absent, response |-> Null,
     accessToken |-> Absent, refreshToken |-> Absent,
     outcome |-> Pending, requests |-> 0, emitted |-> 0,
     wasAuthenticated |-> FALSE, bearer |-> Absent]

\* a call of method o on instance i begins, its first fetch sent
Calling(o, i, a) ==
    [pc |-> "fetch", op |-> o, self |-> i, arg |-> a, response |-> Null,
     accessToken |-> Absent, refreshToken |-> Absent,
     outcome |-> Pending, requests |-> 1, emitted |-> 0,
     wasAuthenticated |-> isAuthenticated(cookies, instances, authServiceInstance),
     bearer |-> Absent]

\* the request the call has out carries `Authorization: Bearer ${token}`
Bearing(call, token) == [call EXCEPT !.bearer = token]

\* a call that ended before any fetch
Ended(o, i, a, out, em) ==
    [pc |-> "done", op |-> o, self |-> i, arg |-> a, response |-> Null,
     accessToken |-> Absent, refreshToken |-> Absent,
     outcome |-> out, requests |-> 0, emitted |-> em,
     wasAuthenticated |-> isAuthenticated(cookies, instances, authServiceInstance),
     bearer |-> Absent]

\* The footer component: connected is whether the element is in the document,
\* showUser its show-user property, listening whether handleAuthStateChange
\* is registered on window; isAuthenticated, user and credits are its state;
\* load is where each run of loadUserData or loadCredits stands ("none": the
\* run is free).
InitialFooter ==
    [connected |-> FALSE, showUser |-> FALSE, listening |-> FALSE,
     isAuthenticated |-> FALSE, user |-> Null, credits |-> Null,
     load |-> [l \in Loads |-> "none"]]

FreeLoads(f) == {l \in Loads : f.load[l] = "none"}

\* the run a load that begins takes
NextLoad(f) == CHOOSE l \in FreeLoads(f) : \A k \in FreeLoads(f) : l <= k

\* handleAuthStateChange(event), to its end: loadCredits() runs up to its
\* await import
handleAuthStateChange(f, event) ==
    IF event.authenticated /\ event.user # Null
    THEN [f EXCEPT !.isAuthenticated = TRUE,
                   !.user = event.user,
                   !.load[NextLoad(f)] = "creditsImport"]
    ELSE [f EXCEPT !.isAuthenticated = event.authenticated,
                   !.user = Null,
                   !.credits = Null]

\* window.dispatchEvent(event): the listeners registered now run, the event
\* is kept nowhere. A load the handler begins needs a free run.
windowDispatchEvent(event) ==
    /\ lastEvent' = event
    /\ IF footer.listening
       THEN /\ (event.authenticated /\ event.user # Null) => FreeLoads(footer) # {}
            /\ footer' = handleAuthStateChange(footer, event)
       ELSE footer' = footer

\* The module is loaded: no instance yet (auth.ts:571). The cookies outlive the
\* page: the store is empty, or holds the tokens an earlier session left under
\* the default names.
NoCookies == [n \in CookieNames |-> Absent]

InitialCookies ==
    {NoCookies,
     [NoCookies EXCEPT !["redrob_auth_token"] = "T1", !["redrob_refresh_token"] = "R1"]}

Init ==
    /\ authServiceInstance = 0
    /\ instances = <<>>
    /\ cookies \in InitialCookies
    /\ lastEvent = Null
    /\ task = [t \in Callers |-> IdleTask]
    /\ footer = InitialFooter

\* nothing of the service changes
AuthUnchanged == UNCHANGED <<authServiceInstance, instances, cookies, lastEvent>>

\* nothing of the session changes, and no listener runs
SessionUnchanged == AuthUnchanged /\ UNCHANGED footer

\* the call of task t settles
Settle(t, out) ==
    [task EXCEPT ![t].pc = "done", ![t].outcome = out]

\* the call of task t settles after dispatching one event
SettleEmit(t, out) ==
    [task EXCEPT ![t].pc = "done", ![t].outcome = out, ![t].emitted = @ + 1]

\* Uninitialized with a getAuthService() that returns null instead of throwing
UninitializedQuietly(t, o) ==
    /\ task' = [task EXCEPT ![t] = Ended(o, 0, Absent, Resolved(Null), 0)]
    /\ SessionUnchanged

\* getAuthService() threw in the exported wrapper of method o
Uninitialized(t, o) ==
    /\ task' = [task EXCEPT ![t] = Ended(o, 0, Absent, Rejected(NotInitialized), 0)]
    /\ SessionUnchanged

\* The call of an exported async function o whose method sends its request
\* first thing: getAuthService(), then the method up to its fetch.
Call(t, o, a) ==
    /\ task[t].pc = "idle"
    /\ IF authServiceInstance = 0
       THEN Uninitialized(t, o)
       ELSE /\ task' = [task EXCEPT ![t] = Calling(o, authServiceInstance, a)]
            /\ SessionUnchanged

\* `await fetch` of task t ends, for the request sent at pc `at`: the fetch
\* rejected, or the response is there with its body still to read.
RespondedWith(t, o, at, responses) ==
    /\ task[t].pc = at
    /\ task[t].op = o
    /\ \E resp \in responses :
        task' = [task EXCEPT ![t].response = resp,
                             ![t].pc = IF at = "profile" THEN "profileBody" ELSE "body"]
    /\ SessionUnchanged

Responded(t, o, at, bodies) == RespondedWith(t, o, at, Responses(bodies))

\* FetchError without the test of response.ok
FetchErrorStatusBlind(resp, notOk) ==
    IF resp.neterr THEN NetworkError
    ELSE IF ~resp.parses THEN SyntaxError
    ELSE Absent

\* The error the code from `await fetch` to `await response.json()` throws
\* on response resp, Absent when it throws none; notOk is the error of a
\* non-2xx response.
FetchError(resp, notOk) ==
    IF resp.neterr THEN NetworkError
    ELSE IF ~resp.ok THEN notOk
    ELSE IF ~resp.parses THEN SyntaxError
    ELSE Absent

\* the fallback message of each method
Fallback(o) ==
    CASE o = "signup" -> "Signup failed"
      [] o = "login" -> "Login failed"
      [] o = "googleSSO" -> "Google SSO failed"
      [] o = "verifyEmail" -> "Email verification failed"
      [] o = "regenerateOTP" -> "Failed to regenerate OTP"
      [] o = "passwordResetRequest" -> "Failed to send password reset email"
      [] o = "passwordReset" -> "Password reset failed"

-----------------------------------------------------------------------------
(* initAuth *)

\* an instance no call runs on is out of reach once the singleton is replaced
Reachable(i) == \E t \in Callers : task[t].pc # "idle" /\ task[t].self = i

initAuth(config) ==
    /\ Len(instances) < MaxInits
    /\ instances' = Append([i \in DOMAIN instances |->
                                IF Reachable(i) THEN instances[i] ELSE Null],
                           AuthService(config))
    /\ authServiceInstance' = Len(instances) + 1
    /\ UNCHANGED <<cookies, lastEvent, task, footer>>

-----------------------------------------------------------------------------
(* getUserProfile *)

\* ProfileGuard without the check of the token
ProfileGuardOff(cks, inst) == Absent

\* the error getUserProfile throws before its fetch, Absent when none
ProfileGuard(cks, inst) ==
    IF Truthy(getToken(cks, inst)) THEN Absent ELSE "No authentication token found"

\* ProfileUser that takes the body for the user, envelope or not
ProfileUserFlat(result) == result

\* const user = result.data || result
ProfileUser(result) ==
    IF GetObj(result, "data") # Null THEN result.data ELSE result

\* the error getUserProfile throws on the response of its request
ProfileError(resp) == FetchError(resp, "Failed to fetch user profile")

\* the exported getUserProfile(), and getUserCredits(), up to the fetch
BearerCall(t, o) ==
    /\ task[t].pc = "idle"
    /\ IF authServiceInstance = 0
       THEN Uninitialized(t, o)
       ELSE LET i == authServiceInstance
                err == ProfileGuard(cookies, instances[i])
            IN  /\ IF err # Absent
                   THEN task' = [task EXCEPT ![t] = Ended(o, i, Absent, Rejected(err), 0)]
                   ELSE task' = [task EXCEPT ![t] =
                            Bearing(Calling(o, i, Absent),
                                    getToken(cookies, instances[i]))]
                /\ SessionUnchanged

getUserProfile(t) == BearerCall(t, "getUserProfile")

getUserProfileResponded(t) == Responded(t, "getUserProfile", "fetch", ProfileBodies)

\* getUserProfileFetched that takes a failed fetch for the end of the
\* session and deletes the cookies
getUserProfileFetchedLogsOut(t) ==
    /\ task[t].pc = "body"
    /\ task[t].op = "getUserProfile"
    /\ LET resp == task[t].response
       IN  IF ProfileError(resp) # Absent
           THEN /\ task' = [task EXCEPT ![t].pc = "done",
                                        ![t].outcome = Rejected(ProfileError(resp))]
                /\ cookies' = ClearTokens(cookies, instances[task[t].self])
                /\ UNCHANGED <<authServiceInstance, instances, lastEvent, footer>>
           ELSE /\ instances' = SetCurrentUser(instances, task[t].self,
                                               ProfileUser(resp.body))
                /\ task' = [task EXCEPT ![t].pc = "done",
                                        ![t].outcome = Resolved(ProfileUser(resp.body))]
                /\ UNCHANGED <<authServiceInstance, cookies, lastEvent, footer>>

getUserProfileFetched(t) ==
    /\ task[t].pc = "body"
    /\ task[t].op = "getUserProfile"
    /\ LET resp == task[t].response
       IN  IF ProfileError(resp) # Absent
           THEN /\ task' = Settle(t, Rejected(ProfileError(resp)))
                /\ SessionUnchanged
           ELSE /\ instances' = SetCurrentUser(instances, task[t].self,
                                               ProfileUser(resp.body))
                /\ task' = Settle(t, Resolved(ProfileUser(resp.body)))
                /\ UNCHANGED <<authServiceInstance, cookies, lastEvent, footer>>

-----------------------------------------------------------------------------
(* signup, login, googleSSO *)

signup(t) == Call(t, "signup", Absent)
\* login that joins a login whose request is out instead of sending its own
loginDeduplicated(t) ==
    IF \E u \in Tasks \ {t} : task[u].op = "login" /\ task[u].pc = "fetch"
    THEN /\ task[t].pc = "idle"
         /\ task' = [task EXCEPT ![t] =
                        [Calling("login", authServiceInstance, Absent)
                            EXCEPT !.requests = 0]]
         /\ SessionUnchanged
    ELSE Call(t, "login", Absent)

login(t) == Call(t, "login", Absent)
googleSSO(t) == Call(t, "googleSSO", Absent)

signupResponded(t) == Responded(t, "signup", "fetch", AuthBodies)
loginResponded(t) == Responded(t, "login", "fetch", AuthBodies)
googleSSOResponded(t) == Responded(t, "googleSSO", "fetch", AuthBodies)

\* AuthFetched with the catch block of refreshToken: a failure deletes the
\* cookies before it is rethrown
AuthFetchedClearsOnFailure(t, o) ==
    /\ task[t].pc = "body"
    /\ task[t].op = o
    /\ LET resp == task[t].response
           inst == instances[task[t].self]
           err == FetchError(resp, ErrorMessage(resp, Fallback(o)))
       IN  IF err # Absent \/ ~Truthy(AccessTokenOf(resp.body))
           THEN /\ task' = [task EXCEPT ![t].pc = "done", ![t].outcome =
                        Rejected(IF err # Absent THEN err
                                 ELSE "No access token received from server")]
                /\ cookies' = ClearTokens(cookies, inst)
                /\ UNCHANGED <<authServiceInstance, instances, lastEvent, footer>>
           ELSE /\ cookies' = StoreTokens(cookies, inst, AccessTokenOf(resp.body),
                                          RefreshTokenOf(resp.body))
                /\ task' = [task EXCEPT ![t].accessToken = AccessTokenOf(resp.body),
                                       ![t].refreshToken = RefreshTokenOf(resp.body),
                                        ![t].pc = "profile",
                                        ![t].response = Null,
                                        ![t].requests = @ + 1]
                /\ UNCHANGED <<authServiceInstance, instances, lastEvent, footer>>

\* AuthFetched with a catch block that forgets the user of the session before
\* it rethrows
AuthFetchedForgetsUser(t, o) ==
    /\ task[t].pc = "body"
    /\ task[t].op = o
    /\ LET resp == task[t].response
           inst == instances[task[t].self]
           err == FetchError(resp, ErrorMessage(resp, Fallback(o)))
       IN  IF err # Absent \/ ~Truthy(AccessTokenOf(resp.body))
           THEN /\ task' = [task EXCEPT ![t].pc = "done", ![t].outcome =
                        Rejected(IF err # Absent THEN err
                                 ELSE "No access token received from server")]
                /\ instances' = SetCurrentUser(instances, task[t].self, Null)
                /\ UNCHANGED <<authServiceInstance, cookies, lastEvent, footer>>
           ELSE /\ cookies' = StoreTokens(cookies, inst, AccessTokenOf(resp.body),
                                          RefreshTokenOf(resp.body))
                /\ task' = [task EXCEPT ![t].accessToken = AccessTokenOf(resp.body),
                                       ![t].refreshToken = RefreshTokenOf(resp.body),
                                        ![t].pc = "profile",
                                        ![t].response = Null,
                                        ![t].requests = @ + 1]
                /\ UNCHANGED <<authServiceInstance, instances, lastEvent, footer>>

\* AuthFetched whose profile fetch sends the token read before the new one
\* was written
AuthFetchedStaleBearer(t, o) ==
    /\ task[t].pc = "body"
    /\ task[t].op = o
    /\ LET resp == task[t].response
           inst == instances[task[t].self]
           err == FetchError(resp, ErrorMessage(resp, Fallback(o)))
       IN  IF err # Absent
           THEN /\ task' = Settle(t, Rejected(err))
                /\ SessionUnchanged
           ELSE IF ~Truthy(AccessTokenOf(resp.body))
           THEN /\ task' = Settle(t, Rejected("No access token received from server"))
                /\ SessionUnchanged
           ELSE LET stored == StoreTokens(cookies, inst, AccessTokenOf(resp.body),
                                          RefreshTokenOf(resp.body))
                    held == [task EXCEPT ![t].accessToken = AccessTokenOf(resp.body),
                                       ![t].refreshToken = RefreshTokenOf(resp.body)]
                IN  /\ cookies' = stored
                    /\ IF ProfileGuard(stored, inst) # Absent
                       THEN task' = [held EXCEPT ![t].pc = "done",
                                ![t].outcome = Rejected(ProfileGuard(stored, inst))]
                       ELSE task' = [held EXCEPT ![t].pc = "profile",
                                                 ![t].response = Null,
                                                 ![t].requests = @ + 1,
                                                 ![t].bearer = getToken(cookies, inst)]
                    /\ UNCHANGED <<authServiceInstance, instances, lastEvent, footer>>

\* From the body of the signup, login or google-sso response to the fetch of
\* getUserProfile, or to the throw.
AuthFetched(t, o) ==
    /\ task[t].pc = "body"
    /\ task[t].op = o
    /\ LET resp == task[t].response
           inst == instances[task[t].self]
           err == FetchError(resp, ErrorMessage(resp, Fallback(o)))
       IN  IF err # Absent
           THEN /\ task' = Settle(t, Rejected(err))
                /\ SessionUnchanged
           ELSE IF ~Truthy(AccessTokenOf(resp.body))
           THEN /\ task' = Settle(t, Rejected("No access token received from server"))
                /\ SessionUnchanged
           ELSE LET stored == StoreTokens(cookies, inst, AccessTokenOf(resp.body),
                                          RefreshTokenOf(resp.body))
                    held == [task EXCEPT ![t].accessToken = AccessTokenOf(resp.body),
                                       ![t].refreshToken = RefreshTokenOf(resp.body)]
                IN  /\ cookies' = stored
                    /\ IF ProfileGuard(stored, inst) # Absent
                       THEN task' = [held EXCEPT ![t].pc = "done",
                                ![t].outcome = Rejected(ProfileGuard(stored, inst))]
                       ELSE task' = [held EXCEPT ![t].pc = "profile",
                                                 ![t].response = Null,
                                                 ![t].requests = @ + 1,
                                                 ![t].bearer = getToken(stored, inst)]
                    /\ UNCHANGED <<authServiceInstance, instances, lastEvent, footer>>

signupFetched(t) == AuthFetched(t, "signup")
loginFetched(t) == AuthFetched(t, "login")
googleSSOFetched(t) == AuthFetched(t, "googleSSO")

AuthProfileResponded(t) ==
    \E o \in {"signup", "login", "googleSSO"} : Responded(t, o, "profile", ProfileBodies)

\* AuthProfileFetched without the dispatch
AuthProfileFetchedSilent(t) ==
    /\ task[t].pc = "profileBody"
    /\ task[t].op \in {"signup", "login", "googleSSO"}
    /\ LET resp == task[t].response
       IN  IF ProfileError(resp) # Absent
           THEN /\ task' = [task EXCEPT ![t].pc = "done",
                                        ![t].outcome = Rejected(ProfileError(resp))]
                /\ UNCHANGED <<authServiceInstance, instances, cookies, lastEvent, footer>>
           ELSE /\ instances' = SetCurrentUser(instances, task[t].self,
                                               ProfileUser(resp.body))
                /\ task' = [task EXCEPT ![t].pc = "done",
                                ![t].outcome = Resolved([user |-> ProfileUser(resp.body),
                                                         token |-> task[t].accessToken])]
                /\ UNCHANGED <<authServiceInstance, cookies, lastEvent, footer>>

\* AuthProfileFetched whose failure undoes what the method wrote: the cookies
\* deleted before the error is rethrown
AuthProfileFetchedRollback(t) ==
    /\ task[t].pc = "profileBody"
    /\ task[t].op \in {"signup", "login", "googleSSO"}
    /\ LET resp == task[t].response
           i == task[t].self
       IN  IF ProfileError(resp) # Absent
           THEN /\ task' = [task EXCEPT ![t].pc = "done",
                                        ![t].outcome = Rejected(ProfileError(resp))]
                /\ cookies' = ClearTokens(cookies, instances[i])
                /\ UNCHANGED <<authServiceInstance, instances, lastEvent, footer>>
           ELSE LET user == ProfileUser(resp.body)
                    insts == SetCurrentUser(instances, i, user)
                IN  /\ instances' = insts
                    /\ windowDispatchEvent(dispatchAuthStateChange(TRUE, user, cookies, insts,
                                                            authServiceInstance))
                    /\ task' = [task EXCEPT ![t].pc = "done", ![t].emitted = @ + 1,
                                    ![t].outcome = Resolved(
                                        [user |-> user, token |-> task[t].accessToken])]
                    /\ UNCHANGED <<authServiceInstance, cookies>>

\* AuthProfileFetched that dispatches the event before the user is stored,
\* with the user cached until then
AuthProfileFetchedEarlyDispatch(t) ==
    /\ task[t].pc = "profileBody"
    /\ task[t].op \in {"signup", "login", "googleSSO"}
    /\ LET resp == task[t].response
           i == task[t].self
       IN  IF ProfileError(resp) # Absent
           THEN /\ task' = [task EXCEPT ![t].pc = "done",
                                        ![t].outcome = Rejected(ProfileError(resp))]
                /\ SessionUnchanged
           ELSE LET user == ProfileUser(resp.body)
                IN  /\ windowDispatchEvent(dispatchAuthStateChange(TRUE,
                                        instances[i].currentUser, cookies, instances,
                                        authServiceInstance))
                    /\ instances' = SetCurrentUser(instances, i, user)
                    /\ task' = [task EXCEPT ![t].pc = "done", ![t].emitted = @ + 1,
                                    ![t].outcome = Resolved(
                                        [user |-> user, token |-> task[t].accessToken])]
                    /\ UNCHANGED <<authServiceInstance, cookies>>

\* From the body of the profile response inside signup, login or googleSSO to
\* the return, or to the throw.
AuthProfileFetched(t) ==
    /\ task[t].pc = "profileBody"
    /\ task[t].op \in {"signup", "login", "googleSSO"}
    /\ LET resp == task[t].response
           i == task[t].self
       IN  IF ProfileError(resp) # Absent
           THEN /\ task' = Settle(t, Rejected(ProfileError(resp)))
                /\ SessionUnchanged
           ELSE LET user == ProfileUser(resp.body)
                    insts == SetCurrentUser(SetCurrentUser(instances, i, user), i, user)
                IN  /\ instances' = insts
                    /\ windowDispatchEvent(dispatchAuthStateChange(TRUE, user, cookies, insts,
                                                            authServiceInstance))
                    /\ task' = SettleEmit(t, Resolved(
                                    [user |-> user, token |-> task[t].accessToken]))
                    /\ UNCHANGED <<authServiceInstance, cookies>>

\* the caller takes the settled promise
Return(t) ==
    /\ task[t].pc = "done"
    /\ task' = [task EXCEPT ![t] = IdleTask]
    /\ SessionUnchanged

-----------------------------------------------------------------------------
(* logout *)

\* Deauthenticate without the dispatch
DeauthenticateSilent(t, settled) ==
    /\ cookies' = ClearTokens(cookies, instances[settled[t].self])
    /\ instances' = SetCurrentUser(instances, settled[t].self, Null)
    /\ task' = settled
    /\ UNCHANGED <<authServiceInstance, lastEvent, footer>>

\* Deauthenticate that leaves this.currentUser as it is
DeauthenticateKeepsUser(t, settled) ==
    LET cleared == ClearTokens(cookies, instances[settled[t].self])
    IN  /\ cookies' = cleared
        /\ windowDispatchEvent(dispatchAuthStateChange(FALSE, Null, cleared, instances,
                                                authServiceInstance))
        /\ task' = [settled EXCEPT ![t].emitted = @ + 1]
        /\ UNCHANGED <<authServiceInstance, instances>>

\* deleteCookie twice, this.currentUser = null, dispatchAuthStateChange(false,
\* null), by the call of task t, whose promise settles with out: the end of
\* logout's try block, and the catch block of refreshToken
Deauthenticate(t, settled) ==
    LET i == settled[t].self
        cleared == ClearTokens(cookies, instances[i])
        insts == SetCurrentUser(instances, i, Null)
    IN  /\ cookies' = cleared
        /\ instances' = insts
        /\ windowDispatchEvent(dispatchAuthStateChange(FALSE, Null, cleared, insts,
                                                authServiceInstance))
        /\ task' = [settled EXCEPT ![t].emitted = @ + 1]
        /\ UNCHANGED authServiceInstance

\* logout that cleans up first and notifies the server afterwards
logoutCleansFirst(t) ==
    /\ task[t].pc = "idle"
    /\ IF authServiceInstance = 0
       THEN Uninitialized(t, "logout")
       ELSE LET i == authServiceInstance
            IN  IF Truthy(getToken(cookies, instances[i]))
                THEN Deauthenticate(t, [task EXCEPT ![t] = Calling("logout", i, Absent)])
                ELSE Deauthenticate(t, [task EXCEPT ![t] =
                        Ended("logout", i, Absent, Resolved(Null), 0)])

\* the call: with a token the logout request is sent, without one the method
\* runs to its end at once
logout(t) ==
    /\ task[t].pc = "idle"
    /\ IF authServiceInstance = 0
       THEN Uninitialized(t, "logout")
       ELSE LET i == authServiceInstance
            IN  IF Truthy(getToken(cookies, instances[i]))
                THEN /\ task' = [task EXCEPT ![t] =
                                Bearing(Calling("logout", i, Absent),
                                        getToken(cookies, instances[i]))]
                     /\ SessionUnchanged
                ELSE Deauthenticate(t, [task EXCEPT ![t] =
                        Ended("logout", i, Absent, Resolved(Null), 0)])

logoutResponded(t) == Responded(t, "logout", "fetch", PlainBodies)

\* logoutFetched without the .catch on the fetch and with a check of
\* response.ok: the catch block of logout cleans up and rethrows
logoutFetchedRethrows(t) ==
    /\ task[t].pc = "body"
    /\ task[t].op = "logout"
    /\ IF task[t].response.neterr \/ ~task[t].response.ok
       THEN Deauthenticate(t, [task EXCEPT ![t].pc = "done",
                                  ![t].outcome = Rejected("Logout failed")])
       ELSE Deauthenticate(t, [task EXCEPT ![t].pc = "done",
                                  ![t].outcome = Resolved(Null)])

\* logoutFetched that sends the request again until the server accepts it
logoutFetchedRetries(t) ==
    /\ task[t].pc = "body"
    /\ task[t].op = "logout"
    /\ IF task[t].response.neterr \/ ~task[t].response.ok
       THEN /\ task' = [task EXCEPT ![t].pc = "fetch", ![t].response = Null]
            /\ SessionUnchanged
       ELSE Deauthenticate(t, Settle(t, Resolved(Null)))

\* The logout request ended: fetch(...).catch(...) resolves whether the fetch
\* rejected or resolved, and the response is not looked at.
logoutFetched(t) ==
    /\ task[t].pc = "body"
    /\ task[t].op = "logout"
    /\ Deauthenticate(t, Settle(t, Resolved(Null)))

-----------------------------------------------------------------------------
(* refreshToken *)

\* refreshToken without the check of the refresh-token cookie
refreshTokenUnguarded(t) ==
    /\ task[t].pc = "idle"
    /\ IF authServiceInstance = 0
       THEN Uninitialized(t, "refreshToken")
       ELSE /\ task' = [task EXCEPT ![t] =
                            Calling("refreshToken", authServiceInstance, Absent)]
            /\ SessionUnchanged

refreshToken(t) ==
    /\ task[t].pc = "idle"
    /\ IF authServiceInstance = 0
       THEN Uninitialized(t, "refreshToken")
       ELSE LET i == authServiceInstance
            IN  IF Truthy(getCookie(cookies, instances[i].refreshTokenKey))
                THEN /\ task' = [task EXCEPT ![t] = Calling("refreshToken", i, Absent)]
                     /\ SessionUnchanged
                ELSE Deauthenticate(t, [task EXCEPT ![t] =
                        Ended("refreshToken", i, Absent,
                              Rejected("No refresh token found"), 0)])

refreshTokenResponded(t) == Responded(t, "refreshToken", "fetch", AuthBodies)

\* refreshTokenFetched that deletes the old refresh-token cookie when the
\* response carries no new one
refreshTokenFetchedDropsRefresh(t) ==
    /\ task[t].pc = "body"
    /\ task[t].op = "refreshToken"
    /\ LET resp == task[t].response
           inst == instances[task[t].self]
           err == FetchError(resp, "Failed to refresh token")
       IN  IF err # Absent \/ ~Truthy(AccessTokenOf(resp.body))
           THEN Deauthenticate(t, [task EXCEPT ![t].pc = "done", ![t].outcome =
                    Rejected(IF err # Absent THEN err
                             ELSE "No access token received from server")])
           ELSE /\ cookies' = StoreTokens(deleteCookie(cookies, inst.refreshTokenKey),
                                  inst, AccessTokenOf(resp.body), RefreshTokenOf(resp.body))
                /\ task' = [task EXCEPT ![t].accessToken = AccessTokenOf(resp.body),
                                       ![t].refreshToken = RefreshTokenOf(resp.body),
                                        ![t].pc = "profile",
                                        ![t].response = Null,
                                        ![t].requests = @ + 1]
                /\ UNCHANGED <<authServiceInstance, instances, lastEvent, footer>>

\* From the body of the refresh response to the fetch of getUserProfile, or
\* to the catch block.
refreshTokenFetched(t) ==
    /\ task[t].pc = "body"
    /\ task[t].op = "refreshToken"
    /\ LET resp == task[t].response
           inst == instances[task[t].self]
           err == FetchError(resp, "Failed to refresh token")
       IN  IF err # Absent
           THEN Deauthenticate(t, Settle(t, Rejected(err)))
           ELSE IF ~Truthy(AccessTokenOf(resp.body))
           THEN Deauthenticate(t, Settle(t,
                    Rejected("No access token received from server")))
           ELSE LET stored == StoreTokens(cookies, inst, AccessTokenOf(resp.body),
                                          RefreshTokenOf(resp.body))
                    held == [task EXCEPT ![t].accessToken = AccessTokenOf(resp.body),
                                       ![t].refreshToken = RefreshTokenOf(resp.body)]
                IN  IF ProfileGuard(stored, inst) # Absent
                    THEN /\ cookies' = ClearTokens(stored, inst)
                         /\ instances' = SetCurrentUser(instances, task[t].self, Null)
                         /\ windowDispatchEvent(dispatchAuthStateChange(FALSE, Null, cookies',
                                            instances', authServiceInstance))
                         /\ task' = [held EXCEPT ![t].pc = "done",
                                        ![t].outcome = Rejected(ProfileGuard(stored, inst)),
                                        ![t].emitted = @ + 1]
                         /\ UNCHANGED authServiceInstance
                    ELSE /\ cookies' = stored
                         /\ task' = [held EXCEPT ![t].pc = "profile",
                                                 ![t].response = Null,
                                                 ![t].requests = @ + 1,
                                                 ![t].bearer = getToken(stored, inst)]
                         /\ UNCHANGED <<authServiceInstance, instances, lastEvent, footer>>

\* refreshTokenProfileFetched that rethrows a profile failure as login does,
\* without the catch block's cleanup
refreshTokenProfileFetchedNoCleanup(t) ==
    /\ task[t].pc = "profileBody"
    /\ task[t].op = "refreshToken"
    /\ LET resp == task[t].response
           i == task[t].self
       IN  IF FetchError(resp, "Failed to fetch user profile") # Absent
           THEN /\ task' = [task EXCEPT ![t].pc = "done", ![t].outcome =
                        Rejected(FetchError(resp, "Failed to fetch user profile"))]
                /\ UNCHANGED <<authServiceInstance, instances, cookies, lastEvent, footer>>
           ELSE LET user == IF GetObj(resp.body, "data") # Null THEN resp.body.data
                            ELSE resp.body
                    insts == SetCurrentUser(instances, i, user)
                IN  /\ instances' = insts
                    /\ windowDispatchEvent(dispatchAuthStateChange(TRUE, user, cookies, insts,
                                                            authServiceInstance))
                    /\ task' = [task EXCEPT ![t].pc = "done", ![t].emitted = @ + 1,
                                    ![t].outcome = Resolved(
                                        [token |-> task[t].accessToken, user |-> user])]
                    /\ UNCHANGED <<authServiceInstance, cookies>>

refreshTokenProfileResponded(t) == Responded(t, "refreshToken", "profile", ProfileBodies)

\* From the body of the profile response inside refreshToken to the return,
\* or to the catch block.
refreshTokenProfileFetched(t) ==
    /\ task[t].pc = "profileBody"
    /\ task[t].op = "refreshToken"
    /\ LET resp == task[t].response
           i == task[t].self
       IN  IF ProfileError(resp) # Absent
           THEN Deauthenticate(t, Settle(t, Rejected(ProfileError(resp))))
           ELSE LET user == ProfileUser(resp.body)
                    insts == SetCurrentUser(SetCurrentUser(instances, i, user), i, user)
                IN  /\ instances' = insts
                    /\ windowDispatchEvent(dispatchAuthStateChange(TRUE, user, cookies, insts,
                                                            authServiceInstance))
                    /\ task' = SettleEmit(t, Resolved(
                                    [token |-> task[t].accessToken, user |-> user]))
                    /\ UNCHANGED <<authServiceInstance, cookies>>

-----------------------------------------------------------------------------
(* verifyEmail *)

verifyEmail(t, email) == Call(t, "verifyEmail", email)

verifyEmailResponded(t) == Responded(t, "verifyEmail", "fetch", PlainBodies)

\* Verified that sets a property named verified
VerifiedMisnamed(user) ==
    [f \in DOMAIN user \cup {"verified"} |->
        IF f = "verified" THEN TRUE ELSE user[f]]

\* this.currentUser.emailVerified = true
Verified(user) ==
    [f \in DOMAIN user \cup {"emailVerified"} |->
        IF f = "emailVerified" THEN TRUE ELSE user[f]]

\* verifyEmailFetched that does not compare the email with the cached user's
verifyEmailFetchedAnyEmail(t) ==
    /\ task[t].pc = "body"
    /\ task[t].op = "verifyEmail"
    /\ LET resp == task[t].response
           i == task[t].self
           user == instances[i].currentUser
           err == FetchError(resp, ErrorMessage(resp, Fallback("verifyEmail")))
       IN  IF err # Absent
           THEN /\ task' = [task EXCEPT ![t].pc = "done", ![t].outcome = Rejected(err)]
                /\ UNCHANGED <<authServiceInstance, instances, cookies, lastEvent, footer>>
           ELSE IF user # Null
           THEN LET insts == SetCurrentUser(instances, i, Verified(user))
                IN  /\ instances' = insts
                    /\ windowDispatchEvent(dispatchAuthStateChange(TRUE, Verified(user), cookies,
                                                            insts, authServiceInstance))
                    /\ task' = [task EXCEPT ![t].pc = "done", ![t].emitted = @ + 1,
                                            ![t].outcome = Resolved(resp.body)]
                    /\ UNCHANGED <<authServiceInstance, cookies>>
           ELSE /\ task' = [task EXCEPT ![t].pc = "done",
                                        ![t].outcome = Resolved(resp.body)]
                /\ UNCHANGED <<authServiceInstance, instances, cookies, lastEvent, footer>>

\* verifyEmailFetched that sets the flag without dispatching the event
verifyEmailFetchedUnannounced(t) ==
    /\ task[t].pc = "body"
    /\ task[t].op = "verifyEmail"
    /\ LET resp == task[t].response
           i == task[t].self
           user == instances[i].currentUser
           err == FetchError(resp, ErrorMessage(resp, Fallback("verifyEmail")))
       IN  IF err # Absent
           THEN /\ task' = Settle(t, Rejected(err))
                /\ SessionUnchanged
           ELSE IF user # Null /\ user.email = task[t].arg
           THEN /\ instances' = SetCurrentUser(instances, i, Verified(user))
                /\ task' = Settle(t, Resolved(resp.body))
                /\ UNCHANGED <<authServiceInstance, cookies, lastEvent, footer>>
           ELSE /\ task' = Settle(t, Resolved(resp.body))
                /\ SessionUnchanged

verifyEmailFetched(t) ==
    /\ task[t].pc = "body"
    /\ task[t].op = "verifyEmail"
    /\ LET resp == task[t].response
           i == task[t].self
           user == instances[i].currentUser
           err == FetchError(resp, ErrorMessage(resp, Fallback("verifyEmail")))
       IN  IF err # Absent
           THEN /\ task' = Settle(t, Rejected(err))
                /\ SessionUnchanged
           ELSE IF user # Null /\ user.email = task[t].arg
           THEN LET insts == SetCurrentUser(instances, i, Verified(user))
                IN  /\ instances' = insts
                    /\ windowDispatchEvent(dispatchAuthStateChange(TRUE, Verified(user), cookies,
                                                            insts, authServiceInstance))
                    /\ task' = SettleEmit(t, Resolved(resp.body))
                    /\ UNCHANGED <<authServiceInstance, cookies>>
           ELSE /\ task' = Settle(t, Resolved(resp.body))
                /\ SessionUnchanged

-----------------------------------------------------------------------------
(* regenerateOTP, passwordResetRequest, passwordReset, checkEmail *)

regenerateOTP(t) == Call(t, "regenerateOTP", Absent)
passwordResetRequest(t) == Call(t, "passwordResetRequest", Absent)
passwordReset(t) == Call(t, "passwordReset", Absent)
checkEmail(t) == Call(t, "checkEmail", Absent)

PassThroughOps == {"regenerateOTP", "passwordResetRequest", "passwordReset", "checkEmail"}

PassThroughResponded(t) ==
    \E o \in PassThroughOps : Responded(t, o, "fetch", PlainBodies)

\* PassThroughError with the fixed message of each method, the body unread
PassThroughErrorFixed(o, resp) ==
    IF o = "checkEmail" THEN "Failed to check email" ELSE Fallback(o)

\* the error each of them throws on a non-2xx response
PassThroughError(o, resp) ==
    IF o = "checkEmail" THEN "Failed to check email"
    ELSE ErrorMessage(resp, Fallback(o))

PassThroughFetched(t, o) ==
    /\ task[t].pc = "body"
    /\ task[t].op = o
    /\ LET resp == task[t].response
           err == FetchError(resp, PassThroughError(o, resp))
       IN  task' = Settle(t, IF err # Absent THEN Rejected(err) ELSE Resolved(resp.body))
    /\ SessionUnchanged

regenerateOTPFetched(t) == PassThroughFetched(t, "regenerateOTP")
passwordResetRequestFetched(t) == PassThroughFetched(t, "passwordResetRequest")
passwordResetFetched(t) == PassThroughFetched(t, "passwordReset")
checkEmailFetched(t) == PassThroughFetched(t, "checkEmail")

-----------------------------------------------------------------------------
(* getUserCredits *)

getUserCredits(t) == BearerCall(t, "getUserCredits")

CreditsBodies == {[available |-> 7, total |-> 10, used |-> 3]}

getUserCreditsResponded(t) == Responded(t, "getUserCredits", "fetch", CreditsBodies)

\* getUserCreditsFetched that deletes the cookies when the server refuses
\* the token
getUserCreditsFetchedClearsTokens(t) ==
    /\ task[t].pc = "body"
    /\ task[t].op = "getUserCredits"
    /\ LET resp == task[t].response
           err == FetchError(resp, "Failed to fetch user credits")
       IN  /\ task' = [task EXCEPT ![t].pc = "done", ![t].outcome =
                        IF err # Absent THEN Rejected(err) ELSE Resolved(resp.body)]
           /\ cookies' = IF ~resp.neterr /\ ~resp.ok
                         THEN ClearTokens(cookies, instances[task[t].self])
                         ELSE cookies
    /\ UNCHANGED <<authServiceInstance, instances, lastEvent, footer>>

getUserCreditsFetched(t) ==
    /\ task[t].pc = "body"
    /\ task[t].op = "getUserCredits"
    /\ LET resp == task[t].response
           err == FetchError(resp, "Failed to fetch user credits")
       IN  task' = Settle(t, IF err # Absent THEN Rejected(err) ELSE Resolved(resp.body))
    /\ SessionUnchanged

-----------------------------------------------------------------------------
(* The exported synchronous functions *)

\* isAuthenticated(), called by task t
isAuthenticatedCall(t) ==
    /\ task[t].pc = "idle"
    /\ task' = [task EXCEPT ![t] =
            Ended("isAuthenticated", authServiceInstance, Absent,
                  Resolved([bool |-> isAuthenticated(cookies, instances,
                                                     authServiceInstance)]), 0)]
    /\ SessionUnchanged

\* getCurrentUser(), called by task t
getCurrentUserCall(t) ==
    /\ task[t].pc = "idle"
    /\ task' = [task EXCEPT ![t] =
            Ended("getCurrentUser", authServiceInstance, Absent,
                  Resolved(getCurrentUser(instances, authServiceInstance)), 0)]
    /\ SessionUnchanged

getAuthService(t) ==
    /\ task[t].pc = "idle"
    /\ IF authServiceInstance = 0
       THEN Uninitialized(t, "getAuthService")
       ELSE /\ task' = [task EXCEPT ![t] =
                    Ended("getAuthService", authServiceInstance, Absent,
                          Resolved([instance |-> authServiceInstance]), 0)]
            /\ SessionUnchanged

-----------------------------------------------------------------------------
(* The footer component: lifecycle and loads *)

\* what the exported getUserProfile() or getUserCredits() has done when it
\* returns its promise: thrown in getAuthService(), thrown for the missing
\* token, or sent its request
BearerCalled(o) ==
    IF authServiceInstance = 0
    THEN Ended(o, 0, Absent, Rejected(NotInitialized), 0)
    ELSE IF ProfileGuard(cookies, instances[authServiceInstance]) # Absent
    THEN Ended(o, authServiceInstance, Absent,
               Rejected(ProfileGuard(cookies, instances[authServiceInstance])), 0)
    ELSE Bearing(Calling(o, authServiceInstance, Absent),
                 getToken(cookies, instances[authServiceInstance]))

\* the value of `call.catch(() => null)` of the settled call of task t
CaughtResult(t) ==
    IF task[t].outcome.state = "resolved" THEN task[t].outcome.value ELSE Null

\* connectedCallback that hands the last event dispatched to the listener it
\* registers
connectedCallbackReplays(showUser) ==
    /\ ~footer.connected
    /\ IF showUser
       THEN /\ FreeLoads(footer) # {}
            /\ LET f == [footer EXCEPT !.connected = TRUE,
                                       !.showUser = TRUE,
                                       !.listening = TRUE,
                                       !.load[NextLoad(footer)] = "userDataImport"]
               IN  footer' = IF \/ lastEvent = Null
                                \/ /\ lastEvent.authenticated
                                   /\ lastEvent.user # Null
                                   /\ FreeLoads(f) = {}
                             THEN f
                             ELSE handleAuthStateChange(f, lastEvent)
       ELSE footer' = [footer EXCEPT !.connected = TRUE, !.showUser = FALSE]
    /\ AuthUnchanged
    /\ UNCHANGED task

\* connectedCallback(), with the show-user property as the page set it:
\* loadUserData() runs up to its await import, then the listener is
\* registered
connectedCallback(showUser) ==
    /\ ~footer.connected
    /\ IF showUser
       THEN /\ FreeLoads(footer) # {}
            /\ footer' = [footer EXCEPT !.connected = TRUE,
                                        !.showUser = TRUE,
                                        !.listening = TRUE,
                                        !.load[NextLoad(footer)] = "userDataImport"]
       ELSE footer' = [footer EXCEPT !.connected = TRUE, !.showUser = FALSE]
    /\ AuthUnchanged
    /\ UNCHANGED task

\* disconnectedCallback(): the listener is removed; the loads under way go on
disconnectedCallback ==
    /\ footer.connected
    /\ footer' = [footer EXCEPT !.connected = FALSE, !.listening = FALSE]
    /\ AuthUnchanged
    /\ UNCHANGED task

\* loadUserData after its await import: isAuthenticated(), and the two calls
\* of Promise.all up to their fetches
loadUserDataImported(l) ==
    /\ footer.load[l] = "userDataImport"
    /\ IF isAuthenticated(cookies, instances, authServiceInstance)
       THEN /\ footer' = [footer EXCEPT !.isAuthenticated = TRUE,
                                        !.load[l] = "userData"]
            /\ task' = [task EXCEPT
                            ![ProfileTask(l)] = BearerCalled("getUserProfile"),
                            ![CreditsTask(l)] = BearerCalled("getUserCredits")]
       ELSE /\ footer' = [footer EXCEPT !.load[l] = "none"]
            /\ UNCHANGED task
    /\ AuthUnchanged

\* loadUserData after Promise.all: both calls have settled
loadUserDataLoaded(l) ==
    /\ footer.load[l] = "userData"
    /\ task[ProfileTask(l)].pc = "done"
    /\ task[CreditsTask(l)].pc = "done"
    /\ footer' = [footer EXCEPT !.user = CaughtResult(ProfileTask(l)),
                                !.credits = CaughtResult(CreditsTask(l)),
                                !.load[l] = "none"]
    /\ task' = [task EXCEPT ![ProfileTask(l)] = IdleTask,
                            ![CreditsTask(l)] = IdleTask]
    /\ AuthUnchanged

\* loadCredits after its await import: getUserCredits() up to its fetch
loadCreditsImported(l) ==
    /\ footer.load[l] = "creditsImport"
    /\ footer' = [footer EXCEPT !.load[l] = "credits"]
    /\ task' = [task EXCEPT ![CreditsTask(l)] = BearerCalled("getUserCredits")]
    /\ AuthUnchanged

\* loadCredits after getUserCredits() has settled
loadCreditsLoaded(l) ==
    /\ footer.load[l] = "credits"
    /\ task[CreditsTask(l)].pc = "done"
    /\ footer' = [footer EXCEPT !.credits = CaughtResult(CreditsTask(l)),
                                !.load[l] = "none"]
    /\ task' = [task EXCEPT ![CreditsTask(l)] = IdleTask]
    /\ AuthUnchanged

-----------------------------------------------------------------------------
(* Specifications *)

\* no call is under way: every caller has taken the result of its last call
Quiet == \A t \in Tasks : task[t].pc = "idle"

\* task t calls an exported function
Start(t) ==
    \/ signup(t)
    \/ login(t)
    \/ googleSSO(t)
    \/ logout(t)
    \/ refreshToken(t)
    \/ \E email \in Emails : verifyEmail(t, email)
    \/ regenerateOTP(t)
    \/ passwordResetRequest(t)
    \/ passwordReset(t)
    \/ checkEmail(t)
    \/ getUserProfile(t)
    \/ getUserCredits(t)
    \/ isAuthenticatedCall(t)
    \/ getCurrentUserCall(t)
    \/ getAuthService(t)

\* the fetch of task t ends
Respond(t) ==
    \/ signupResponded(t)
    \/ loginResponded(t)
    \/ googleSSOResponded(t)
    \/ AuthProfileResponded(t)
    \/ logoutResponded(t)
    \/ refreshTokenResponded(t)
    \/ refreshTokenProfileResponded(t)
    \/ verifyEmailResponded(t)
    \/ PassThroughResponded(t)
    \/ getUserProfileResponded(t)
    \/ getUserCreditsResponded(t)

\* the call of task t goes on from the response
Resume(t) ==
    \/ signupFetched(t)
    \/ loginFetched(t)
    \/ googleSSOFetched(t)
    \/ AuthProfileFetched(t)
    \/ logoutFetched(t)
    \/ refreshTokenFetched(t)
    \/ refreshTokenProfileFetched(t)
    \/ verifyEmailFetched(t)
    \/ regenerateOTPFetched(t)
    \/ passwordResetRequestFetched(t)
    \/ passwordResetFetched(t)
    \/ checkEmailFetched(t)
    \/ getUserProfileFetched(t)
    \/ getUserCreditsFetched(t)

\* the caller of the sequential specification
Main == CHOOSE t \in Tasks : \A u \in Tasks : t <= u

\* Calls one after another, by one caller that awaits each: a call, and
\* initAuth, start only when the call before has settled and returned.
Next ==
    \/ Quiet /\ \E config \in Configs : initAuth(config)
    \/ Quiet /\ Start(Main)
    \/ Respond(Main)
    \/ Resume(Main)
    \/ Return(Main)

Spec == Init /\ [][Next]_vars

\* Calls that overlap, on a service the application initializes once: every
\* caller may start a call while calls of the others wait for their
\* responses, and the responses come in any order. The calls are those that
\* write or delete the session: login, logout, refreshToken, getUserProfile.
StartOverlapping(t) ==
    \/ login(t)
    \/ logout(t)
    \/ refreshToken(t)
    \/ getUserProfile(t)

\* what the server answers overlapping calls: two token bodies, of the two
\* namings, one with a refresh token, and the two users
OverlappingAuthBodies ==
    {b \in AuthBodies :
        \/ b = [message |-> "Success", access_token |-> "T1", refresh_token |-> "R1"]
        \/ b = [message |-> "Success", token |-> "T2"]}

OverlappingProfileBodies == {b \in ProfileBodies : b \in Users}

\* the responses to overlapping calls: no response, a refusal, or a 2xx with
\* one of the bodies
OverlappingResponses(bodies) ==
    {r \in Responses(bodies) :
        \/ r = NetworkFailure
        \/ r = Http(FALSE, TRUE, [message |-> "Invalid credentials"])
        \/ r.neterr = FALSE /\ r.ok /\ r.parses}

RespondOverlapping(t) ==
    \/ RespondedWith(t, "login", "fetch", OverlappingResponses(OverlappingAuthBodies))
    \/ RespondedWith(t, "login", "profile", OverlappingResponses(OverlappingProfileBodies))
    \/ RespondedWith(t, "logout", "fetch", OverlappingResponses(PlainBodies))
    \/ RespondedWith(t, "refreshToken", "fetch",
                     OverlappingResponses(OverlappingAuthBodies))
    \/ RespondedWith(t, "refreshToken", "profile",
                     OverlappingResponses(OverlappingProfileBodies))
    \/ RespondedWith(t, "getUserProfile", "fetch",
                     OverlappingResponses(OverlappingProfileBodies))

ResumeOverlapping(t) ==
    \/ loginFetched(t)
    \/ AuthProfileFetched(t)
    \/ logoutFetched(t)
    \/ refreshTokenFetched(t)
    \/ refreshTokenProfileFetched(t)
    \/ getUserProfileFetched(t)

NextOverlapping ==
    \/ authServiceInstance = 0 /\ \E config \in Configs : initAuth(config)
    \/ \E t \in Tasks : StartOverlapping(t)
    \/ \E t \in Tasks : RespondOverlapping(t)
    \/ \E t \in Tasks : ResumeOverlapping(t)
    \/ \E t \in Tasks : Return(t)

SpecOverlapping == Init /\ [][NextOverlapping]_vars

\* Calls around one logout: Main logs out of an initialized service and keeps
\* the settled promise; the other callers start login, refreshToken and
\* getUserProfile until that logout has completed, and none after it. Their
\* calls under way at that moment go on and finish in any order.
LoggedOut ==
    /\ task[Main].pc = "done"
    /\ task[Main].op = "logout"
    /\ task[Main].outcome.state = "resolved"

StartBeforeLogout(t) ==
    /\ ~LoggedOut
    /\ \/ login(t)
       \/ refreshToken(t)
       \/ getUserProfile(t)

NextAroundLogout ==
    \/ authServiceInstance = 0 /\ \E config \in Configs : initAuth(config)
    \/ authServiceInstance # 0 /\ logout(Main)
    \/ RespondedWith(Main, "logout", "fetch", OverlappingResponses(PlainBodies))
    \/ logoutFetched(Main)
    \/ \E t \in Tasks \ {Main} : StartBeforeLogout(t)
    \/ \E t \in Tasks \ {Main} : RespondOverlapping(t)
    \/ \E t \in Tasks \ {Main} : ResumeOverlapping(t)
    \/ \E t \in Tasks \ {Main} : Return(t)

SpecAroundLogout == Init /\ [][NextAroundLogout]_vars

\* The footer on a page whose application logs in and out, one call after
\* another, on a service it initializes once with the default cookie names:
\* the footer is connected and disconnected at any moment, its loads and
\* their requests go on beside the calls of the application.
FooterCallers == Callers \ Tasks

FooterConfigs == {config \in Configs : "tokenKey" \notin DOMAIN config}

\* what the server answers on that page: no response, or a 2xx with a body
FooterResponses(bodies) ==
    {r \in OverlappingResponses(bodies) : r = NetworkFailure \/ r.ok}

PageAuthBodies == {b \in OverlappingAuthBodies : "refresh_token" \in DOMAIN b}

StartPage(t) ==
    \/ login(t)
    \/ logout(t)

RespondPage(t) ==
    \/ RespondedWith(t, "login", "fetch", FooterResponses(PageAuthBodies))
    \/ RespondedWith(t, "login", "profile", FooterResponses(OverlappingProfileBodies))
    \/ RespondedWith(t, "logout", "fetch", FooterResponses(PlainBodies))

ResumePage(t) ==
    \/ loginFetched(t)
    \/ AuthProfileFetched(t)
    \/ logoutFetched(t)

RespondFooter(t) ==
    \/ RespondedWith(t, "getUserProfile", "fetch",
                     FooterResponses(OverlappingProfileBodies))
    \/ RespondedWith(t, "getUserCredits", "fetch", FooterResponses(CreditsBodies))

ResumeFooter(t) ==
    \/ getUserProfileFetched(t)
    \/ getUserCreditsFetched(t)

LoadFooter(l) ==
    \/ loadUserDataImported(l)
    \/ loadUserDataLoaded(l)
    \/ loadCreditsImported(l)
    \/ loadCreditsLoaded(l)

NextFooter ==
    \/ authServiceInstance = 0 /\ \E config \in FooterConfigs : initAuth(config)
    \/ Quiet /\ StartPage(Main)
    \/ RespondPage(Main)
    \/ ResumePage(Main)
    \/ Return(Main)
    \/ \E showUser \in BOOLEAN : connectedCallback(showUser)
    \/ disconnectedCallback
    \/ \E l \in Loads : LoadFooter(l)
    \/ \E t \in FooterCallers : RespondFooter(t)
    \/ \E t \in FooterCallers : ResumeFooter(t)

SpecFooter == Init /\ [][NextFooter]_vars

\* Calls one after another that every request answers: as in Spec, with
\* login, logout and refreshToken as the calls, login answered as in
\* SpecOverlapping. The fetch of a call under way
\* eventually resolves or rejects (the server or the network answers every
\* request), and the call then goes on: the continuation of a settled promise
\* is a job the event loop runs once the running job has ended.
StartFair(t) ==
    \/ login(t)
    \/ logout(t)
    \/ refreshToken(t)

RespondFair(t) ==
    \/ RespondedWith(t, "login", "fetch", OverlappingResponses(OverlappingAuthBodies))
    \/ RespondedWith(t, "login", "profile", OverlappingResponses(OverlappingProfileBodies))
    \/ logoutResponded(t)
    \/ refreshTokenResponded(t)
    \/ refreshTokenProfileResponded(t)

ResumeFair(t) ==
    \/ loginFetched(t)
    \/ AuthProfileFetched(t)
    \/ logoutFetched(t)
    \/ refreshTokenFetched(t)
    \/ refreshTokenProfileFetched(t)

NextFair ==
    \/ Quiet /\ \E config \in Configs : initAuth(config)
    \/ Quiet /\ StartFair(Main)
    \/ RespondFair(Main)
    \/ ResumeFair(Main)
    \/ Return(Main)

SpecFair ==
    /\ Init
    /\ [][NextFair]_vars
    /\ WF_vars(RespondFair(Main))
    /\ WF_vars(ResumeFair(Main))

-----------------------------------------------------------------------------
(* What a caller observes between steps *)

\* isAuthenticated() now
Authenticated == isAuthenticated(cookies, instances, authServiceInstance)

\* getCurrentUser() now
CachedUser == getCurrentUser(instances, authServiceInstance)

\* the two cookies of the instance the call of task t runs on
AccessCookie(t) == cookies[instances[task[t].self].tokenKey]
RefreshCookie(t) == cookies[instances[task[t].self].refreshTokenKey]

AuthOps == {"signup", "login", "googleSSO"}

\* the call of task t settles in this step
Settles(t) == task[t].pc # "done" /\ task'[t].pc = "done"

\* task t reads the body of a 2xx response of method o in this step
ReadsBody(t, ops) ==
    /\ task[t].pc = "body"
    /\ task[t].op \in ops
    /\ ~task[t].response.neterr
    /\ task[t].response.ok
    /\ task[t].response.parses

\* the object of a response body that holds the tokens: body.data when the
\* body has one, else the body
Envelope(body) == IF "data" \in DOMAIN body THEN body.data ELSE body

-----------------------------------------------------------------------------
(* C1 *)

\* the access token a body carries: access_token, or token when access_token
\* is missing or empty; Absent when it carries none
C1_Carried(body) ==
    LET d == Envelope(body)
    IN  IF "access_token" \in DOMAIN d /\ d.access_token # ""
        THEN d.access_token
        ELSE IF "token" \in DOMAIN d THEN d.token ELSE Absent

C1_Step(t) ==
    /\ (ReadsBody(t, AuthOps) /\ C1_Carried(task[t].response.body) \notin {Absent, ""})
          => cookies'[instances[task[t].self].tokenKey]
                = C1_Carried(task[t].response.body)
    /\ (Settles(t) /\ task'[t].op \in AuthOps /\ task'[t].outcome.state = "resolved")
          => isAuthenticated(cookies', instances', authServiceInstance')

\* C1: when signup, login or googleSSO reads a 2xx response that carries an
\* access token, nested under data or flat, as access_token or as token, the
\* access-token cookie holds that token after the step; and when the call
\* resolves, isAuthenticated() is true.
C1_TokenPersisted == [][\A t \in Tasks : C1_Step(t)]_vars

\* a login resolved on a token that came in the camelCase field
C1_Witness ==
    \E t \in Tasks :
        /\ task[t].pc = "done"
        /\ task[t].op = "login"
        /\ task[t].outcome.state = "resolved"
        /\ task[t].outcome.value.token = "T2"
        /\ AccessCookie(t) = "T2"
        /\ Authenticated

-----------------------------------------------------------------------------
(* C2 *)

\* C2: once a logout() call on the initialized service has settled,
\* isAuthenticated() is false, both cookies are absent and getCurrentUser()
\* is null, whatever the logout request came back with.
C2_LogoutClears ==
    \A t \in Tasks :
        (task[t].pc = "done" /\ task[t].op = "logout" /\ task[t].self # 0)
            => /\ ~Authenticated
               /\ AccessCookie(t) = Absent
               /\ RefreshCookie(t) = Absent
               /\ CachedUser = Null

\* a logout settled whose request failed at the network level
C2_Witness ==
    \E t \in Tasks :
        /\ task[t].pc = "done"
        /\ task[t].op = "logout"
        /\ task[t].response # Null
        /\ task[t].response.neterr
        /\ AccessCookie(t) = Absent

-----------------------------------------------------------------------------
(* C3 *)

\* the error each cause of a refreshToken failure throws
C3_Error(t) ==
    LET r == task[t].response
    IN  IF task[t].requests = 0 THEN "No refresh token found"
        ELSE IF r.neterr THEN NetworkError
        ELSE IF ~r.ok
             THEN IF task[t].requests = 1 THEN "Failed to refresh token"
                  ELSE "Failed to fetch user profile"
        ELSE IF ~r.parses THEN SyntaxError
        ELSE "No access token received from server"

\* C3: when refreshToken() has rejected (no refresh-token cookie, network
\* error, non-2xx, unreadable body, no access token, or a failed profile
\* fetch after the tokens were written), both cookies are absent, the cached
\* user is null and the error is the one its cause threw.
C3_RefreshFailureClears ==
    \A t \in Tasks :
        (/\ task[t].pc = "done"
         /\ task[t].op = "refreshToken"
         /\ task[t].self # 0
         /\ task[t].outcome.state = "rejected")
            => /\ AccessCookie(t) = Absent
               /\ RefreshCookie(t) = Absent
               /\ CachedUser = Null
               /\ ~Authenticated
               /\ task[t].outcome.error = C3_Error(t)

\* a refreshToken rejected by the profile fetch that followed the new tokens
C3_Witness ==
    \E t \in Tasks :
        /\ task[t].pc = "done"
        /\ task[t].op = "refreshToken"
        /\ task[t].requests = 2
        /\ task[t].outcome.state = "rejected"
        /\ task[t].outcome.error = "Failed to fetch user profile"
        /\ AccessCookie(t) = Absent

-----------------------------------------------------------------------------
(* C4 *)

\* task t calls a function on the initialized service while the access-token
\* cookie is absent
C4_CallsWithoutToken(t) ==
    /\ task[t].pc = "idle"
    /\ task'[t].pc # "idle"
    /\ authServiceInstance # 0
    /\ ~Truthy(getToken(cookies, instances[authServiceInstance]))

C4_MissingCredential(t) ==
    /\ task'[t].pc = "done"
    /\ task'[t].outcome = Rejected("No authentication token found")
    /\ task'[t].requests = 0

\* C4 as claimed: getUserProfile, getUserCredits and logout, called while no
\* access-token cookie is present, fail with the missing-credential error
\* and send no request.
C4_Original ==
    [][\A t \in Tasks :
        (C4_CallsWithoutToken(t)
            /\ task'[t].op \in {"getUserProfile", "getUserCredits", "logout"})
          => C4_MissingCredential(t)]_vars

\* C4 amended: getUserProfile and getUserCredits, called while no
\* access-token cookie is present, fail with the missing-credential error and
\* send no request; logout sends no request either, and resolves after
\* deleting both cookies, clearing the cached user and dispatching one event
\* with authenticated false.
C4_NoTokenNoRequest ==
    [][\A t \in Tasks :
        /\ (C4_CallsWithoutToken(t)
              /\ task'[t].op \in {"getUserProfile", "getUserCredits"})
             => (C4_MissingCredential(t) /\ SessionUnchanged)
        /\ (C4_CallsWithoutToken(t) /\ task'[t].op = "logout")
             => /\ task'[t].pc = "done"
                /\ task'[t].outcome = Resolved(Null)
                /\ task'[t].requests = 0
                /\ task'[t].emitted = 1
                /\ lastEvent'.authenticated = FALSE
                /\ cookies'[instances[authServiceInstance].tokenKey] = Absent
                /\ cookies'[instances[authServiceInstance].refreshTokenKey] = Absent
                /\ getCurrentUser(instances', authServiceInstance') = Null]_vars

\* getUserCredits rejected for want of a token, no request sent
C4_Witness ==
    \E t \in Tasks :
        /\ task[t].pc = "done"
        /\ task[t].op = "getUserCredits"
        /\ task[t].outcome = Rejected("No authentication token found")
        /\ task[t].requests = 0

-----------------------------------------------------------------------------
(* C5 *)

\* the logout of task t goes on from a non-2xx response of POST /auth/logout
C5_LogoutAfter500(t) ==
    /\ task[t].pc = "body"
    /\ task[t].op = "logout"
    /\ ~task[t].response.neterr
    /\ ~task[t].response.ok

C5_Cleared(t) ==
    /\ Settles(t)
    /\ cookies'[instances[task[t].self].tokenKey] = Absent
    /\ cookies'[instances[task[t].self].refreshTokenKey] = Absent
    /\ ~isAuthenticated(cookies', instances', authServiceInstance')
    /\ task'[t].emitted = 1
    /\ lastEvent'.authenticated = FALSE

\* C5 as claimed: a logout() whose request is answered with status 500
\* rejects, the cookies cleared and one authenticated:false event dispatched.
C5_Original ==
    [][\A t \in Tasks :
        C5_LogoutAfter500(t)
          => (C5_Cleared(t) /\ task'[t].outcome.state = "rejected")]_vars

\* C5 amended: a logout() whose request is answered with status 500
\* resolves; when it does the cookies are cleared, isAuthenticated() is false
\* and that logout has dispatched exactly one event, with authenticated false.
C5_LogoutAfter500Resolves ==
    [][\A t \in Tasks :
        C5_LogoutAfter500(t)
          => (C5_Cleared(t) /\ task'[t].outcome.state = "resolved")]_vars

\* a logout resolved after a non-2xx answer, one event dispatched
C5_Witness ==
    \E t \in Tasks :
        /\ task[t].pc = "done"
        /\ task[t].op = "logout"
        /\ task[t].response # Null
        /\ ~task[t].response.neterr
        /\ ~task[t].response.ok
        /\ task[t].outcome.state = "resolved"
        /\ task[t].emitted = 1
        /\ lastEvent.authenticated = FALSE

-----------------------------------------------------------------------------
(* C6 *)

\* C6: a logout() whose request failed at the network level or was answered
\* non-2xx has resolved, not rejected, with both cookies deleted, the cached
\* user cleared and {authenticated: false, user: null} dispatched.
C6_LogoutSwallowsFailure ==
    \A t \in Tasks :
        (/\ task[t].pc = "done"
         /\ task[t].op = "logout"
         /\ task[t].response # Null
         /\ (task[t].response.neterr \/ ~task[t].response.ok))
            => /\ task[t].outcome.state = "resolved"
               /\ AccessCookie(t) = Absent
               /\ RefreshCookie(t) = Absent
               /\ instances[task[t].self].currentUser = Null
               /\ lastEvent.authenticated = FALSE
               /\ lastEvent.user = Null

\* a logout resolved after its request was answered non-2xx, the session it
\* ended having held a cached user's tokens under the custom cookie name
C6_Witness ==
    \E t \in Tasks :
        /\ task[t].pc = "done"
        /\ task[t].op = "logout"
        /\ task[t].response # Null
        /\ ~task[t].response.neterr
        /\ ~task[t].response.ok
        /\ task[t].response.parses
        /\ task[t].outcome.state = "resolved"
        /\ instances[task[t].self].tokenKey = "my_access_token"

-----------------------------------------------------------------------------
(* C7 *)

\* task t calls an exported function while no instance exists
C7_CallsBeforeInit(t) ==
    /\ task[t].pc = "idle"
    /\ task'[t].pc # "idle"
    /\ authServiceInstance = 0

C7_Inert(t) ==
    /\ task'[t].pc = "done"
    /\ task'[t].requests = 0
    /\ task'[t].emitted = 0
    /\ SessionUnchanged

\* C7 as claimed: before initAuth every exported operation fails with the
\* not-initialized error, sends no request and changes no state.
C7_Original ==
    [][\A t \in Tasks :
        C7_CallsBeforeInit(t)
          => (C7_Inert(t) /\ task'[t].outcome = Rejected(NotInitialized))]_vars

\* C7 amended: before initAuth the exported async operations and
\* getAuthService fail with the not-initialized error; isAuthenticated()
\* returns false and getCurrentUser() returns null without failing; none of
\* them sends a request or changes state.
C7_BeforeInit ==
    [][\A t \in Tasks :
        C7_CallsBeforeInit(t)
          => /\ C7_Inert(t)
             /\ task'[t].outcome =
                  IF task'[t].op = "isAuthenticated" THEN Resolved([bool |-> FALSE])
                  ELSE IF task'[t].op = "getCurrentUser" THEN Resolved(Null)
                  ELSE Rejected(NotInitialized)]_vars

\* isAuthenticated() answered false before initAuth, over a cookie an earlier
\* session left
C7_Witness ==
    \E t \in Tasks :
        /\ authServiceInstance = 0
        /\ task[t].pc = "done"
        /\ task[t].op = "isAuthenticated"
        /\ task[t].outcome = Resolved([bool |-> FALSE])
        /\ cookies["redrob_auth_token"] = "T1"

-----------------------------------------------------------------------------
(* C8 *)

\* the user a profile body holds: body.data when the body has one, else the body
C8_Fetched(body) == IF "data" \in DOMAIN body THEN body.data ELSE body

C8_Step(t) ==
    /\ (ReadsBody(t, AuthOps) /\ task'[t].pc = "profile")
          => task'[t].accessToken = C1_Carried(task[t].response.body)
    /\ (Settles(t) /\ task'[t].op \in AuthOps /\ task'[t].outcome.state = "resolved")
          => LET user == C8_Fetched(task[t].response.body)
             IN  /\ task[t].pc = "profileBody"
                 /\ task'[t].outcome.value = [user |-> user, token |-> task[t].accessToken]
                 /\ task'[t].emitted = 1
                 /\ lastEvent'.authenticated = TRUE
                 /\ lastEvent'.user = user
                 /\ lastEvent'.seenAuth
                 /\ lastEvent'.seenUser = user
                 /\ cookies'[instances[task[t].self].tokenKey] = task[t].accessToken
                 /\ getCurrentUser(instances', authServiceInstance') = user

\* C8: a signup, login or googleSSO that resolves returns {user, token},
\* token the access token read off the authentication response and user the
\* one the profile fetch returned; it has dispatched exactly one event, with
\* authenticated true and that user, and as the event is dispatched the
\* access-token cookie holds the token and getCurrentUser() returns the user.
C8_SuccessResult == [][\A t \in Tasks : C8_Step(t)]_vars

\* a googleSSO resolved with the user of a nested profile body
C8_Witness ==
    \E t \in Tasks :
        /\ task[t].pc = "done"
        /\ task[t].op = "googleSSO"
        /\ task[t].outcome.state = "resolved"
        /\ task[t].response.body = [data |-> U1]
        /\ task[t].outcome.value = [user |-> U1, token |-> "T1"]
        /\ lastEvent.user = U1
        /\ task[t].emitted = 1

-----------------------------------------------------------------------------
(* C9 *)

TokenOps == AuthOps \cup {"refreshToken"}

\* task t persists the tokens of the body it reads
C9_Persists(t) == ReadsBody(t, TokenOps) /\ task'[t].pc = "profile"

\* C9 as claimed: the snake_case field is used when present, the camelCase
\* field only when the snake_case one is absent.
C9_Original ==
    [][\A t \in Tasks :
        C9_Persists(t)
          => LET d == Envelope(task[t].response.body)
                 used == IF "access_token" \in DOMAIN d THEN d.access_token ELSE d.token
             IN  /\ cookies'[instances[task[t].self].tokenKey] = used
                 /\ task'[t].accessToken = used]_vars

\* C9 amended: the snake_case field is used when present and not empty, the
\* camelCase field only when the snake_case one is absent or empty; with both
\* there and different, the snake_case value is the one persisted and
\* returned. The refresh-token cookie is written the same way, and left
\* alone when the response carries no refresh token.
C9_SnakeCaseFirst ==
    [][\A t \in Tasks :
        C9_Persists(t)
          => LET d == Envelope(task[t].response.body)
                 has(f) == f \in DOMAIN d /\ d[f] # ""
                 access == IF has("access_token") THEN d.access_token ELSE d.token
                 refresh == IF has("refresh_token") THEN d.refresh_token
                            ELSE IF has("refreshToken") THEN d.refreshToken
                            ELSE cookies[instances[task[t].self].refreshTokenKey]
             IN  /\ cookies'[instances[task[t].self].tokenKey] = access
                 /\ task'[t].accessToken = access
                 /\ cookies'[instances[task[t].self].refreshTokenKey] = refresh]_vars

\* a refreshToken resolved on a body that held both fields, the cookies
\* holding the snake_case values
C9_Witness ==
    \E t \in Tasks :
        /\ task[t].pc = "done"
        /\ task[t].op = "refreshToken"
        /\ task[t].outcome.state = "resolved"
        /\ task[t].outcome.value.token = "T1"
        /\ AccessCookie(t) = "T1"
        /\ RefreshCookie(t) = "R1"

-----------------------------------------------------------------------------
(* C10 *)

\* signup, login or googleSSO of task t goes on from a response whose body
\* holds neither access_token nor token
C10_NoToken(t) ==
    /\ task[t].pc = "body"
    /\ task[t].op \in AuthOps
    /\ ~task[t].response.neterr
    /\ LET b == task[t].response.body
       IN  b = Null \/ ({"access_token", "token"} \cap DOMAIN Envelope(b) = {})

\* C10 as claimed: whatever the status of the response, a response that
\* carries neither field makes the call fail with "No access token received
\* from server".
C10_Original ==
    [][\A t \in Tasks :
        C10_NoToken(t)
          => task'[t].outcome = Rejected("No access token received from server")]_vars

\* the message of a non-2xx body, Absent when it has none or does not parse
C10_Message(resp) ==
    IF resp.parses /\ "message" \in DOMAIN resp.body /\ resp.body.message # ""
    THEN resp.body.message ELSE Absent

\* C10 amended: a 2xx response whose body parses and holds neither a
\* non-empty access_token nor a non-empty token makes signup, login and
\* googleSSO fail with "No access token received from server", nothing
\* written; a non-2xx response makes them fail with the message of its body,
\* or with the method's fallback message, whether or not it carries a token.
C10_NoAccessToken ==
    [][\A t \in Tasks :
        /\ (ReadsBody(t, AuthOps)
              /\ C1_Carried(task[t].response.body) \in {Absent, ""})
             => /\ Settles(t)
                /\ task'[t].outcome = Rejected("No access token received from server")
                /\ SessionUnchanged
        /\ (task[t].pc = "body" /\ task[t].op \in AuthOps
              /\ ~task[t].response.neterr /\ ~task[t].response.ok)
             => /\ Settles(t)
                /\ task'[t].outcome =
                     Rejected(IF C10_Message(task[t].response) # Absent
                              THEN C10_Message(task[t].response)
                              ELSE Fallback(task[t].op))
                /\ SessionUnchanged]_vars

\* a signup rejected for want of a token after a 2xx response whose
\* access_token is empty
C10_Witness ==
    \E t \in Tasks :
        /\ task[t].pc = "done"
        /\ task[t].op = "signup"
        /\ task[t].outcome = Rejected("No access token received from server")
        /\ task[t].response.ok
        /\ Get(Envelope(task[t].response.body), "access_token") = ""

-----------------------------------------------------------------------------
(* C11 *)

\* the error of a profile fetch that came back as resp
C11_ProfileFetchError(resp) ==
    IF resp.neterr THEN "TypeError: Failed to fetch"
    ELSE IF ~resp.ok THEN "Failed to fetch user profile"
    ELSE "SyntaxError: Unexpected token"

\* the profile fetch of the signup, login or googleSSO of task t has failed
C11_ProfileFetchFailed(t) ==
    /\ task[t].pc = "profileBody"
    /\ task[t].op \in AuthOps
    /\ LET resp == task[t].response
       IN  resp.neterr \/ ~resp.ok \/ ~resp.parses

\* C11: when signup, login or googleSSO has written the token cookies and the
\* profile fetch that follows fails, the call rejects with the error of the
\* profile fetch, the cookies stay as the call wrote them (isAuthenticated()
\* is true afterwards), the cached user is the one from before the call and
\* the call has dispatched no event.
C11_NoRollback ==
    [][\A t \in Tasks :
        C11_ProfileFetchFailed(t)
          => /\ task'[t].pc = "done"
             /\ task'[t].outcome = Rejected(C11_ProfileFetchError(task[t].response))
             /\ cookies' = cookies
             /\ cookies'[instances[task[t].self].tokenKey] = task[t].accessToken
             /\ Authenticated'
             /\ instances' = instances
             /\ lastEvent' = lastEvent
             /\ task'[t].emitted = 0]_vars

\* a login rejected by its profile fetch: the session was not authenticated
\* when it began and is now, with no user cached
C11_Witness ==
    \E t \in Tasks :
        /\ task[t].pc = "done"
        /\ task[t].op = "login"
        /\ task[t].outcome = Rejected("Failed to fetch user profile")
        /\ task[t].requests = 2
        /\ ~task[t].wasAuthenticated
        /\ Authenticated
        /\ CachedUser = Null
        /\ task[t].emitted = 0

-----------------------------------------------------------------------------
(* C12 *)

\* an authentication-affecting call of task t settles in this step
C12_AuthCallSettles(t) ==
    /\ Settles(t)
    /\ task'[t].op \in TokenOps
    /\ task'[t].outcome # Rejected(NotInitialized)

\* C12 as claimed: after an authentication-affecting call the cached user is
\* non-null exactly when the call succeeded (a failed one leaves it null),
\* and nothing else makes it null or non-null.
C12_Original ==
    [][/\ \A t \in Tasks :
            C12_AuthCallSettles(t)
              => ((CachedUser' # Null) <=> (task'[t].outcome.state = "resolved"))
       /\ (~ \E t \in Tasks : C12_AuthCallSettles(t))
              => ((CachedUser' # Null) <=> (CachedUser # Null))]_vars

\* a profile fetch of task t succeeds in this step: inside signup, login,
\* googleSSO or refreshToken, or as a call of getUserProfile
C12_ProfileFetched(t) ==
    /\ \/ task[t].pc = "profileBody" /\ task[t].op \in TokenOps
       \/ task[t].pc = "body" /\ task[t].op = "getUserProfile"
    /\ ~task[t].response.neterr
    /\ task[t].response.ok
    /\ task[t].response.parses

\* the service of task t deauthenticates in this step: its logout completes,
\* or its refreshToken fails
C12_Deauthenticated(t) ==
    /\ Settles(t)
    /\ \/ task'[t].op = "logout" /\ task'[t].outcome.state = "resolved"
       \/ task'[t].op = "refreshToken" /\ task'[t].outcome.state = "rejected"
                                       /\ task'[t].outcome # Rejected(NotInitialized)

\* C12 amended: the cached user becomes non-null when a profile fetch
\* succeeds (inside signup, login, googleSSO, refreshToken, or a call of
\* getUserProfile), becomes null when a logout completes, a refreshToken
\* fails or initAuth replaces the service, and keeps being null or non-null
\* in every other step: a failed signup, login or googleSSO, failed profile
\* fetch included, leaves the cached user as it was.
C12_CachedUserHistory ==
    [][/\ \A t \in Tasks : C12_ProfileFetched(t) => CachedUser' # Null
       /\ \A t \in Tasks : C12_Deauthenticated(t) => CachedUser' = Null
       /\ authServiceInstance' # authServiceInstance => CachedUser' = Null
       /\ \A t \in Tasks :
            (Settles(t) /\ task'[t].op \in AuthOps
                /\ task'[t].outcome.state = "rejected")
              => CachedUser' = CachedUser
       /\ (/\ authServiceInstance' = authServiceInstance
           /\ ~ \E t \in Tasks : C12_ProfileFetched(t) \/ C12_Deauthenticated(t))
              => ((CachedUser' # Null) <=> (CachedUser # Null))]_vars

\* a login failed with the user of the session before still cached
C12_Witness ==
    \E t \in Tasks :
        /\ task[t].pc = "done"
        /\ task[t].op = "login"
        /\ task[t].outcome = Rejected("Invalid credentials")
        /\ CachedUser = U1

-----------------------------------------------------------------------------
(* C13 *)

\* C13: with calls made one after another, whenever the access-token cookie
\* of the service is absent the cached user is null.
C13_NoCookieNoUser ==
    authServiceInstance # 0
      => (cookies[instances[authServiceInstance].tokenKey] = Absent
            => CachedUser = Null)

\* a logout that sent its request, so ended a session that held a token, has
\* completed: the cookie is absent and no user is cached
C13_Witness ==
    \E t \in Tasks :
        /\ task[t].pc = "done"
        /\ task[t].op = "logout"
        /\ task[t].requests = 1
        /\ task[t].wasAuthenticated
        /\ lastEvent.seenUser = Null
        /\ cookies[instances[authServiceInstance].tokenKey] = Absent
        /\ CachedUser = Null

-----------------------------------------------------------------------------
(* C14 *)

\* a call of task t on the service settles in this step, isAuthenticated()
\* answering otherwise than when the call began
C14_ChangedBy(t) ==
    /\ Settles(t)
    /\ task'[t].outcome # Rejected(NotInitialized)
    /\ Authenticated' # task'[t].wasAuthenticated

\* C14 as claimed: a call leaves isAuthenticated() true where it was false
\* only if it is a signup, login, googleSSO or refreshToken that succeeded,
\* and false where it was true only if it is a logout that completed or a
\* refreshToken that failed.
C14_Original ==
    [][\A t \in Tasks :
        C14_ChangedBy(t)
          => IF Authenticated'
             THEN task'[t].op \in TokenOps /\ task'[t].outcome.state = "resolved"
             ELSE C12_Deauthenticated(t)]_vars

\* task t writes the access-token cookie in this step: its signup, login,
\* googleSSO or refreshToken has read a token off a 2xx response
C14_WritesToken(t) ==
    /\ ReadsBody(t, TokenOps)
    /\ C1_Carried(task[t].response.body) \notin {Absent, ""}

\* initAuth runs in this step
C14_Reinitialized == authServiceInstance' # authServiceInstance

\* C14 amended: isAuthenticated() turns true only as a signup, login,
\* googleSSO or refreshToken writes the token of a 2xx response, or as
\* initAuth creates a service whose cookie is there; it turns false only as a
\* logout completes, a refreshToken fails, or initAuth creates a service
\* whose cookie is not there. A call leaves it true where it was false only
\* if it is one of the four and succeeded, or a signup, login or googleSSO
\* whose profile fetch failed after the cookie was written.
C14_Transitions ==
    [][/\ (~Authenticated /\ Authenticated')
            => (C14_Reinitialized \/ \E t \in Tasks : C14_WritesToken(t))
       /\ (Authenticated /\ ~Authenticated')
            => (C14_Reinitialized \/ \E t \in Tasks : C12_Deauthenticated(t))
       /\ \A t \in Tasks :
            C14_ChangedBy(t)
              => IF Authenticated'
                 THEN /\ task'[t].op \in TokenOps
                      /\ \/ task'[t].outcome.state = "resolved"
                         \/ C11_ProfileFetchFailed(t)
                 ELSE C12_Deauthenticated(t)]_vars

\* a failed getUserProfile on an authenticated session has left
\* isAuthenticated() true
C14_Witness ==
    \E t \in Tasks :
        /\ task[t].pc = "done"
        /\ task[t].op = "getUserProfile"
        /\ task[t].outcome = Rejected("Failed to fetch user profile")
        /\ task[t].wasAuthenticated
        /\ Authenticated

-----------------------------------------------------------------------------
(* C15 *)

-----------------------------------------------------------------------------
(* C16 *)

C16_Ops ==
    {"verifyEmail", "regenerateOTP", "passwordResetRequest", "passwordReset",
     "checkEmail", "getUserCredits"}

\* C16: no step of verifyEmail, regenerateOTP, passwordResetRequest,
\* passwordReset, checkEmail or getUserCredits writes or deletes a cookie,
\* whether the call succeeds or fails: isAuthenticated() answers after the
\* call what it answered before.
C16_CookiesUntouched ==
    [][\A t \in Tasks :
        (task[t].op \in C16_Ops \/ task'[t].op \in C16_Ops)
          => /\ cookies' = cookies
             /\ Authenticated' = Authenticated
             /\ Settles(t) => Authenticated' = task'[t].wasAuthenticated]_vars

\* getUserCredits was refused by the server on an authenticated session, and
\* the session is still authenticated
C16_Witness ==
    \E t \in Tasks :
        /\ task[t].pc = "done"
        /\ task[t].op = "getUserCredits"
        /\ task[t].outcome = Rejected("Failed to fetch user credits")
        /\ task[t].wasAuthenticated
        /\ Authenticated
        /\ RefreshCookie(t) = "R1"

-----------------------------------------------------------------------------
(* C17 *)

\* the verifyEmail of task t has been answered 2xx, a user is cached and the
\* email verified is that user's
C17_VerifiesCachedUser(t) ==
    /\ ReadsBody(t, {"verifyEmail"})
    /\ instances[task[t].self].currentUser # Null
    /\ instances[task[t].self].currentUser.email = task[t].arg

\* C17: when verifyEmail succeeds for the email of the cached user, the
\* cached user is afterwards the same user with emailVerified true, the call
\* has dispatched exactly one event {authenticated: true, user: the cached
\* user}, and isAuthenticated() answers what it answered before.
C17_MarksVerified ==
    [][\A t \in Tasks :
        C17_VerifiesCachedUser(t)
          => LET before == instances[task[t].self].currentUser
                 after == instances'[task[t].self].currentUser
             IN  /\ task'[t].pc = "done"
                 /\ task'[t].outcome = Resolved(task[t].response.body)
                 /\ DOMAIN after = DOMAIN before \cup {"emailVerified"}
                 /\ after.emailVerified = TRUE
                 /\ \A f \in DOMAIN before \ {"emailVerified"} : after[f] = before[f]
                 /\ task'[t].emitted = 1
                 /\ lastEvent'.authenticated = TRUE
                 /\ lastEvent'.user = after
                 /\ lastEvent'.seenUser = after
                 /\ cookies' = cookies
                 /\ Authenticated' = Authenticated
                 /\ Authenticated' = task'[t].wasAuthenticated]_vars

\* a verifyEmail has marked a cached user verified whom the server had not
C17_Witness ==
    \E t \in Tasks :
        /\ task[t].pc = "done"
        /\ task[t].op = "verifyEmail"
        /\ task[t].outcome.state = "resolved"
        /\ task[t].arg = "a@x.com"
        /\ task[t].emitted = 1
        /\ CachedUser = [id |-> "1", email |-> "a@x.com", name |-> "A",
                         emailVerified |-> TRUE]
        /\ lastEvent.user = CachedUser

-----------------------------------------------------------------------------
(* C18 *)

\* the verifyEmail of task t goes on from a response the server refused (or
\* that never came, or does not parse), or with no user cached, or with a
\* cached user of another email
C18_NothingToMark(t) ==
    /\ task[t].pc = "body"
    /\ task[t].op = "verifyEmail"
    /\ LET resp == task[t].response
           user == instances[task[t].self].currentUser
       IN  \/ resp.neterr
           \/ ~resp.ok
           \/ ~resp.parses
           \/ user = Null
           \/ user.email # task[t].arg

\* C18: a verifyEmail for another email than the cached user's, or with no
\* cached user, or refused by the server, leaves the cached user untouched
\* and dispatches no event.
C18_CacheUntouched ==
    [][\A t \in Tasks :
        C18_NothingToMark(t)
          => /\ task'[t].pc = "done"
             /\ instances' = instances
             /\ lastEvent' = lastEvent
             /\ task'[t].emitted = 0
             /\ cookies' = cookies]_vars

\* a verifyEmail has succeeded for an email that is not the cached user's:
\* that user is unverified still and no event was dispatched
C18_Witness ==
    \E t \in Tasks :
        /\ task[t].pc = "done"
        /\ task[t].op = "verifyEmail"
        /\ task[t].outcome.state = "resolved"
        /\ task[t].arg = "b@x.com"
        /\ task[t].emitted = 0
        /\ CachedUser = U1

-----------------------------------------------------------------------------
(* C19 *)

\* task t's call of one of ops goes on from a non-2xx response whose body
\* carries a message
C19_Refused(t, ops) ==
    /\ task[t].pc = "body"
    /\ task[t].op \in ops
    /\ ~task[t].response.neterr
    /\ ~task[t].response.ok
    /\ task[t].response.parses
    /\ "message" \in DOMAIN task[t].response.body
    /\ task[t].response.body.message # ""

C19_NoEffect(t) ==
    /\ instances' = instances
    /\ lastEvent' = lastEvent
    /\ task'[t].emitted = 0

-----------------------------------------------------------------------------
(* C20 *)

\* a step of a getUserProfile call of task t
C20_Step(t) == task[t].op = "getUserProfile" \/ task'[t].op = "getUserProfile"

\* C20: a getUserProfile that fails (no token, network error, non-2xx,
\* unreadable body) leaves both cookies and the cached user as they were
\* and dispatches no event; one that succeeds makes the fetched profile the
\* cached user and returns it, the cookies as they were.
C20_ProfileFetch ==
    [][\A t \in Tasks :
        C20_Step(t)
          => /\ cookies' = cookies
             /\ lastEvent' = lastEvent
             /\ task'[t].emitted = 0
             /\ (Settles(t) /\ task'[t].outcome.state = "rejected")
                   => instances' = instances
             /\ (Settles(t) /\ task'[t].outcome.state = "resolved")
                   => /\ ReadsBody(t, {"getUserProfile"})
                      /\ task'[t].outcome.value = C8_Fetched(task[t].response.body)
                      /\ instances'[task[t].self].currentUser
                            = C8_Fetched(task[t].response.body)
             /\ ~Settles(t) => instances' = instances
             /\ (task[t].pc = "body" /\ ~ReadsBody(t, {"getUserProfile"}))
                   => task'[t].outcome.state = "rejected"
             /\ (task[t].pc = "idle" /\ authServiceInstance # 0 /\ ~Authenticated)
                   => /\ task'[t].outcome = Rejected("No authentication token found")
                      /\ task'[t].requests = 0]_vars

\* a getUserProfile has failed on a session with a cached user: the user
\* and both cookies are still there
C20_Witness ==
    \E t \in Tasks :
        /\ task[t].pc = "done"
        /\ task[t].op = "getUserProfile"
        /\ task[t].outcome = Rejected("TypeError: Failed to fetch")
        /\ CachedUser = U2
        /\ AccessCookie(t) = "T2"
        /\ RefreshCookie(t) = "R2"

-----------------------------------------------------------------------------
(* C21 *)

\* C21: once the service exists, isAuthenticated() is true exactly when the
\* access-token cookie is there (getToken() is not null), with or without a
\* cached user and whatever the server last answered.
C21_PresenceCheck ==
    authServiceInstance # 0
      => (Authenticated
            <=> cookies[instances[authServiceInstance].tokenKey] # Absent)

\* the server has refused the token of a session with no cached user, and
\* isAuthenticated() is true still
C21_Witness ==
    \E t \in Tasks :
        /\ task[t].pc = "done"
        /\ task[t].op = "getUserProfile"
        /\ task[t].outcome = Rejected("Failed to fetch user profile")
        /\ CachedUser = Null
        /\ Authenticated
        /\ cookies[instances[authServiceInstance].tokenKey] = "T1"

-----------------------------------------------------------------------------
(* C22 *)

\* the configuration of a service
C22_Configuration(inst) ==
    <<inst.config, inst.tokenKey, inst.refreshTokenKey>>

\* C22 as claimed: once initAuth has run, the service and its configuration
\* are the same after every step.
C22_Original ==
    [][authServiceInstance # 0
          => /\ authServiceInstance' = authServiceInstance
             /\ C22_Configuration(instances'[authServiceInstance'])
                   = C22_Configuration(instances[authServiceInstance])]_vars

\* C22 amended: no operation but initAuth changes the service or its
\* configuration; every initAuth, the first and the later ones, puts a new
\* service in place, configured as that call says (the cookie names given,
\* or the default ones), its cached user null, the cookies as they were.
C22_SetByInitAuth ==
    [][IF authServiceInstance' = authServiceInstance
       THEN authServiceInstance # 0
              => C22_Configuration(instances'[authServiceInstance])
                    = C22_Configuration(instances[authServiceInstance])
       ELSE LET new == instances'[authServiceInstance']
            IN  /\ new.config \in Configs
                /\ new.tokenKey = IF "tokenKey" \in DOMAIN new.config
                                  THEN new.config.tokenKey ELSE "redrob_auth_token"
                /\ new.refreshTokenKey = IF "refreshTokenKey" \in DOMAIN new.config
                                         THEN new.config.refreshTokenKey
                                         ELSE "redrob_refresh_token"
                /\ new.currentUser = Null
                /\ UNCHANGED <<cookies, lastEvent, task>>]_vars

\* a second initAuth has put a service with another cookie name in place of
\* the one a login had authenticated
C22_Witness ==
    /\ authServiceInstance = 2
    /\ instances[2].tokenKey = "my_access_token"
    /\ instances[2].currentUser = Null
    /\ cookies["redrob_auth_token"] = "T2"
    /\ lastEvent # Null
    /\ lastEvent.authenticated

-----------------------------------------------------------------------------
(* C23 *)

C23_Ops ==
    {"signup", "login", "googleSSO", "refreshToken", "verifyEmail", "regenerateOTP",
     "passwordResetRequest", "passwordReset", "checkEmail", "getUserProfile",
     "getUserCredits"}

\* a request of task t has failed: no response, or a non-2xx one
C23_RequestFailed(t) ==
    /\ task[t].pc \in {"body", "profileBody"}
    /\ task[t].response.neterr \/ ~task[t].response.ok

\* C23: when a request of any operation but logout fails at transport level
\* or is answered non-2xx, the call rejects: it settles at once, never with
\* a value.
C23_FailureSurfaces ==
    [][\A t \in Tasks :
        (C23_RequestFailed(t) /\ task[t].op \in C23_Ops)
          => /\ task'[t].pc = "done"
             /\ task'[t].outcome.state = "rejected"]_vars

\* getUserCredits has rejected on a non-2xx response with a readable body
C23_Witness ==
    \E t \in Tasks :
        /\ task[t].pc = "done"
        /\ task[t].op = "getUserCredits"
        /\ task[t].response = Http(FALSE, TRUE, [code |-> "E"])
        /\ task[t].outcome.state = "rejected"

-----------------------------------------------------------------------------
(* C24 *)

\* C24: a refreshToken that succeeds has written the new access token to the
\* access-token cookie and the new refresh token, when the response carries
\* one, to the refresh-token cookie (the old one staying otherwise), has
\* made the profile it fetched the cached user, has dispatched exactly one
\* event {authenticated: true, user} and returns {token, user}.
C24_RefreshSucceeds ==
    [][\A t \in Tasks :
        /\ (ReadsBody(t, {"refreshToken"})
              /\ C1_Carried(task[t].response.body) \notin {Absent, ""})
             => LET d == Envelope(task[t].response.body)
                    inst == instances[task[t].self]
                    carries(f) == f \in DOMAIN d /\ d[f] # ""
                IN  /\ task'[t].pc = "profile"
                    /\ task'[t].requests = 2
                    /\ cookies'[inst.tokenKey] = C1_Carried(task[t].response.body)
                    /\ task'[t].accessToken = C1_Carried(task[t].response.body)
                    /\ cookies'[inst.refreshTokenKey] =
                          IF carries("refresh_token") THEN d.refresh_token
                          ELSE IF carries("refreshToken") THEN d.refreshToken
                          ELSE cookies[inst.refreshTokenKey]
        /\ (Settles(t) /\ task'[t].op = "refreshToken"
              /\ task'[t].outcome.state = "resolved")
             => LET user == C8_Fetched(task[t].response.body)
                IN  /\ task[t].pc = "profileBody"
                    /\ task'[t].outcome.value = [token |-> task[t].accessToken,
                                                 user |-> user]
                    /\ instances'[task[t].self].currentUser = user
                    /\ cookies' = cookies
                    /\ cookies'[instances[task[t].self].tokenKey] = task[t].accessToken
                    /\ task'[t].emitted = 1
                    /\ lastEvent'.authenticated = TRUE
                    /\ lastEvent'.user = user]_vars

\* a refreshToken has resolved with the camelCase token of the response and
\* the user of the profile fetch
C24_Witness ==
    \E t \in Tasks :
        /\ task[t].pc = "done"
        /\ task[t].op = "refreshToken"
        /\ task[t].outcome = Resolved([token |-> "T2", user |-> U2])
        /\ AccessCookie(t) = "T2"
        /\ RefreshCookie(t) = "R1"
        /\ CachedUser = U2
        /\ task[t].emitted = 1
        /\ lastEvent.user = U2

-----------------------------------------------------------------------------
(* C26 *)

\* a request of task t is out and has not come back
C26_Waiting(t) == task[t].pc \in {"fetch", "profile"}

\* C26: while a request of an operation is out the call is neither resolved
\* nor rejected, and the only way on is the arrival of the response, which
\* by itself changes nothing of the session: no operation times out or is
\* cancelled. A logout whose request is out has deleted no cookie, cleared
\* no user and dispatched nothing.
C26_NoTimeout ==
    [][\A t \in Tasks :
        C26_Waiting(t)
          => /\ task[t].outcome = Pending
             /\ \/ task'[t] = task[t]
                \/ /\ task'[t].pc = (IF task[t].pc = "fetch" THEN "body"
                                     ELSE "profileBody")
                   /\ task'[t].response # Null
                   /\ task'[t].outcome = Pending
                   /\ task'[t].emitted = task[t].emitted
                   /\ SessionUnchanged
             /\ task[t].op = "logout"
                   => /\ task[t].emitted = 0
                      /\ Authenticated = task[t].wasAuthenticated
                      /\ Authenticated]_vars

\* the request of a logout is out: the session is as it was, user and cookie
C26_Witness ==
    \E t \in Tasks :
        /\ task[t].pc = "fetch"
        /\ task[t].op = "logout"
        /\ task[t].outcome = Pending
        /\ CachedUser = U1
        /\ AccessCookie(t) = "T1"

-----------------------------------------------------------------------------
(* C27 *)

\* an event is dispatched in this step
C27_Dispatched == \E t \in Callers : task'[t].emitted = task[t].emitted + 1

\* footer f, which was g, has just handled event: its state is the event's,
\* and for a signed-in user a run of loadCredits has begun
C27_Received(f, g, event) ==
    /\ f.isAuthenticated = event.authenticated
    /\ IF event.authenticated /\ event.user # Null
       THEN /\ f.user = event.user
            /\ \E l \in Loads : g.load[l] = "none" /\ f.load[l] = "creditsImport"
       ELSE /\ f.user = Null
            /\ f.credits = Null

\* what the footer's own loads do to its state in this step, and nothing but
\* them: no run of loadCredits begins, isAuthenticated is not reset, user and
\* credits change only as a load ends, isAuthenticated is set only by
\* loadUserData
C27_NothingReceived ==
    /\ \A l \in Loads :
        footer'.load[l] = "creditsImport" => footer.load[l] = "creditsImport"
    /\ footer.isAuthenticated => footer'.isAuthenticated
    /\ (footer'.user # footer.user \/ footer'.credits # footer.credits)
          => \E l \in Loads : /\ footer.load[l] \in {"userData", "credits"}
                              /\ footer'.load[l] = "none"
    /\ (~footer.isAuthenticated /\ footer'.isAuthenticated)
          => \E l \in Loads : /\ footer.load[l] = "userDataImport"
                              /\ footer'.load[l] = "userData"

\* C27: an event is handled by the footer in the step that dispatches it when
\* the footer's listener is registered at that moment, and by no footer whose
\* listener is not; in every other step, the one that registers the listener
\* included, the footer handles no event: an event dispatched before the
\* listener was registered is never handed to it.
C27_NoReplay ==
    [][/\ (C27_Dispatched /\ footer.listening)
            => C27_Received(footer', footer, lastEvent')
       /\ (C27_Dispatched /\ ~footer.listening) => footer' = footer
       /\ ~C27_Dispatched => C27_NothingReceived]_vars

\* the footer was connected after the event of a login was dispatched: its
\* listener is registered, loadUserData has not gone past its import, and the
\* footer has seen nothing of the event
C27_Witness ==
    /\ lastEvent # Null
    /\ lastEvent.authenticated
    /\ footer.listening
    /\ \E l \in Loads : footer.load[l] = "userDataImport"
    /\ ~footer.isAuthenticated
    /\ footer.user = Null

-----------------------------------------------------------------------------
(* C28 *)

\* C28: refreshToken() called on the service while no refresh-token cookie
\* is there fails with "No refresh token found" and sends no request.
C28_NoRefreshToken ==
    [][\A t \in Tasks :
        (/\ task[t].pc = "idle"
         /\ task'[t].op = "refreshToken"
         /\ authServiceInstance # 0
         /\ cookies[instances[authServiceInstance].refreshTokenKey] = Absent)
          => /\ task'[t].pc = "done"
             /\ task'[t].outcome = Rejected("No refresh token found")
             /\ task'[t].requests = 0]_vars

\* a refreshToken has failed for want of a refresh token, on a session that
\* held an access token
C28_Witness ==
    \E t \in Tasks :
        /\ task[t].pc = "done"
        /\ task[t].op = "refreshToken"
        /\ task[t].outcome = Rejected("No refresh token found")
        /\ task[t].requests = 0
        /\ task[t].wasAuthenticated

-----------------------------------------------------------------------------
(* C29 *)

\* the signup, login or googleSSO of task t goes on from a response that
\* gives it nothing to persist: none, a non-2xx one, an unreadable one, or a
\* 2xx one without an access token
C29_NothingToPersist(t) ==
    /\ task[t].pc = "body"
    /\ task[t].op \in AuthOps
    /\ LET resp == task[t].response
       IN  \/ resp.neterr
           \/ ~resp.ok
           \/ ~resp.parses
           \/ C1_Carried(resp.body) \in {Absent, ""}

\* C29: a signup, login or googleSSO that fails before persisting anything
\* leaves both cookies and the cached user as they were before the call and
\* dispatches no event: a session established earlier stays intact.
C29_FailureLeavesSession ==
    [][\A t \in Tasks :
        C29_NothingToPersist(t)
          => /\ task'[t].pc = "done"
             /\ task'[t].outcome.state = "rejected"
             /\ cookies' = cookies
             /\ instances' = instances
             /\ lastEvent' = lastEvent
             /\ task'[t].emitted = 0
             /\ Authenticated' = task'[t].wasAuthenticated]_vars

\* a signup has failed on a 2xx response without a token while a session
\* was established: user and cookies are still there
C29_Witness ==
    \E t \in Tasks :
        /\ task[t].pc = "done"
        /\ task[t].op = "signup"
        /\ task[t].outcome = Rejected("No access token received from server")
        /\ task[t].wasAuthenticated
        /\ Authenticated
        /\ CachedUser = U2
        /\ RefreshCookie(t) = "R2"

-----------------------------------------------------------------------------
(* C25 *)

\* the login of task u is under way: its request is out, or a response in hand
C25_LoginUnderWay(u) ==
    /\ task[u].op = "login"
    /\ task[u].pc \in {"fetch", "body", "profile", "profileBody"}

\* the login of task t reads a 2xx response that carries an access token
C25_Writes(t) ==
    /\ ReadsBody(t, {"login"})
    /\ Truthy(AccessTokenOf(task[t].response.body))

C25_Step(t, u) ==
    /\ (/\ authServiceInstance # 0
        /\ task[t].pc = "idle"
        /\ task'[t].op = "login"
        /\ C25_LoginUnderWay(u))
          => /\ task'[t].pc = "fetch"
             /\ task'[t].requests = 1
             /\ task'[u] = task[u]
    /\ (C25_Writes(t) /\ task[u].op = "login")
          => (task'[t] # task[t]
                => /\ AccessCookie(t)' = AccessTokenOf(task[t].response.body)
                   /\ task'[t].accessToken = AccessTokenOf(task[t].response.body))
    /\ (/\ task[t].op = "login"
        /\ task[u].op = "login"
        /\ task'[t] # task[t]
        /\ ~C25_Writes(t))
          => cookies' = cookies

\* C25: a login() called while the login() of another caller is under way
\* sends a request of its own and leaves the other call as it is; each of the
\* two, reading a 2xx response with a token, writes that token to the
\* access-token cookie over whatever the other wrote; and no other step of
\* the two calls changes a cookie: the cookie holds the token of the login
\* that wrote last.
C25_ConcurrentLogins ==
    [][\A t, u \in Tasks : t # u => C25_Step(t, u)]_vars

\* two logins that overlapped have both resolved, each on its own token, and
\* the cookie holds the token of one of them, the other's overwritten
C25_Witness ==
    \E t, u \in Tasks :
        /\ t # u
        /\ task[t].pc = "done" /\ task[t].op = "login"
        /\ task[u].pc = "done" /\ task[u].op = "login"
        /\ task[t].outcome.state = "resolved"
        /\ task[u].outcome.state = "resolved"
        /\ task[t].accessToken = "T1"
        /\ task[u].accessToken = "T2"
        /\ task[t].requests = 2 /\ task[u].requests = 2
        /\ AccessCookie(t) = "T1"

-----------------------------------------------------------------------------
(* C30 *)

\* C30: once the logout of Main has completed, with no call of login,
\* refreshToken or getUserProfile started afterwards, isAuthenticated() is
\* false and getCurrentUser() is null, also after the calls started before
\* the logout completed have finished.
C30_Original == LoggedOut => ~Authenticated /\ CachedUser = Null

-----------------------------------------------------------------------------
(* C31 *)

\* C31: an event with authenticated: true was dispatched while the
\* access-token cookie was set: isAuthenticated(), called as the event was
\* dispatched, answered true. lastEvent keeps what it answered then.
C31_Original ==
    (lastEvent # Null /\ lastEvent.authenticated) => lastEvent.seenAuth

-----------------------------------------------------------------------------
(* C32 *)

\* C32: when two calls among signup, login, googleSSO and refreshToken have
\* both resolved, the cached user is the profile one of them fetched, and
\* that call sent as bearer the token the access-token cookie holds: cookie
\* and cached user come from the same call.
C32_Original ==
    \A t, u \in Tasks :
        (/\ t # u
         /\ task[t].pc = "done" /\ task[t].op \in TokenOps
         /\ task[u].pc = "done" /\ task[u].op \in TokenOps
         /\ task[t].outcome.state = "resolved"
         /\ task[u].outcome.state = "resolved")
          => \E w \in {t, u} :
                /\ AccessCookie(w) = task[w].bearer
                /\ CachedUser = task[w].outcome.value.user

-----------------------------------------------------------------------------
(* C33 *)

\* task t, in a signup, login, googleSSO or refreshToken, goes on from a 2xx
\* response that carries an access token
C33_Writes(t) ==
    /\ ReadsBody(t, TokenOps)
    /\ Truthy(AccessTokenOf(task[t].response.body))
    /\ task'[t] # task[t]

\* C33: the step of signup, login, googleSSO or refreshToken that writes the
\* access token of the response to the cookie is the step that sends the
\* profile request, with that token as bearer and with the cookie holding it:
\* no step of another call comes between the write and the read.
C33_BearerJustWritten ==
    [][\A t \in Tasks :
        /\ C33_Writes(t)
              => /\ task'[t].pc = "profile"
                 /\ task'[t].bearer = AccessTokenOf(task[t].response.body)
                 /\ AccessCookie(t)' = task'[t].bearer
        /\ (task[t].op \in TokenOps /\ task[t].pc # "profile"
                                     /\ task'[t].pc = "profile")
              => C33_Writes(t)]_vars

\* two calls that overlap have each written a token and sent a profile
\* request with it: the two requests carry different tokens, the cookie
\* holds the later one
C33_Witness ==
    \E t, u \in Tasks :
        /\ task[t].pc = "profile" /\ task[t].op = "login"
        /\ task[u].pc = "profile" /\ task[u].op = "refreshToken"
        /\ task[t].bearer = "T1"
        /\ task[u].bearer = "T2"
        /\ AccessCookie(u) = "T2"

-----------------------------------------------------------------------------
(* C34 *)

\* C34: after any successful signup, login or googleSSO the refresh-token
\* cookie is absent or holds the refresh token carried by the response that
\* supplied the access token: when such a call has resolved, the cookie under
\* refreshTokenKey is undefined or equal to the call's refreshToken, the
\* value data.refresh_token || data.refreshToken of its response.
C34_Original ==
    \A t \in Tasks :
        (/\ task[t].pc = "done"
         /\ task[t].op \in AuthOps
         /\ task[t].outcome.state = "resolved")
          => \/ RefreshCookie(t) = Absent
             \/ RefreshCookie(t) = task[t].refreshToken

-----------------------------------------------------------------------------
(* C35 *)

\* C35: after any sequence of completed operations in which at least one
\* broadcast was emitted, the user carried by the most recent broadcast equals
\* the value returned by getCurrentUser(): whenever no call is under way and
\* an event has been dispatched, the user of the last event is the cached
\* user.
C35_Original ==
    (lastEvent # Null /\ \A t \in Tasks : task[t].pc \in {"idle", "done"})
        => lastEvent.user = CachedUser

\* task t dispatches an event in the step
C35_Emits(t) == task'[t].emitted > task[t].emitted

\* the step ends a getUserProfile() call of task t with the profile
C35_ProfileRead(t) ==
    /\ task[t].op = "getUserProfile"
    /\ Settles(t)
    /\ task'[t].outcome.state = "resolved"

\* C35 as it holds, calls made one after another: each event carries the
\* user getCurrentUser() returns as it is dispatched, and from then on the
\* two stay equal until a getUserProfile() call succeeds, which overwrites
\* the cached user without an event, or initAuth() is called again, which
\* replaces the instance and its cached user without an event.
C35_EventFollowsUser ==
    [][/\ (\E t \in Tasks : C35_Emits(t)) => lastEvent'.user = CachedUser'
       /\ (lastEvent # Null /\ lastEvent.user = CachedUser
                /\ lastEvent'.user # CachedUser')
             => \/ authServiceInstance' # authServiceInstance
                \/ \E t \in Tasks : C35_ProfileRead(t)]_vars

\* a login has announced one user, a getUserProfile() after it has cached
\* another: the last event and getCurrentUser() differ with no call under way
C35_Witness ==
    \E t \in Tasks :
        /\ task[t].pc = "done"
        /\ task[t].op = "getUserProfile"
        /\ task[t].outcome.state = "resolved"
        /\ lastEvent # Null
        /\ lastEvent.authenticated
        /\ lastEvent.user = U1
        /\ CachedUser = U2

-----------------------------------------------------------------------------
(* C36 *)

\* a call of o by task t is waiting for a response or about to read one
C36_UnderWay(t, o) ==
    /\ task[t].op = o
    /\ task[t].pc \in {"fetch", "body", "profile", "profileBody"}

\* a logout() of task t on the service has completed, both cookies absent
\* and the cached user null
C36_LoggedOut(t) ==
    /\ task[t].pc = "done"
    /\ task[t].op = "logout"
    /\ task[t].self # 0
    /\ task[t].outcome.state = "resolved"
    /\ AccessCookie(t) = Absent
    /\ RefreshCookie(t) = Absent
    /\ CachedUser = Null

\* a refreshToken() of task t on the service has resolved with
\* isAuthenticated() true, or rejected with both cookies absent
C36_Refreshed(t) ==
    /\ task[t].pc = "done"
    /\ task[t].op = "refreshToken"
    /\ task[t].self # 0
    /\ \/ task[t].outcome.state = "resolved" /\ Authenticated
       \/ /\ task[t].outcome.state = "rejected"
          /\ AccessCookie(t) = Absent
          /\ RefreshCookie(t) = Absent

\* C36: assuming every network request eventually responds or fails, every
\* logout() call eventually completes with both cookies absent and the
\* cached user null, and every refreshToken() call eventually resolves with
\* isAuthenticated() true or rejects with both cookies absent. Stated for
\* calls on the initialized service made one after another: a call that
\* waits for a response leads to its completion in that state, and a call
\* that completes without a request is in that state as it completes.
C36_Terminates ==
    /\ \A t \in Tasks : C36_UnderWay(t, "logout") ~> C36_LoggedOut(t)
    /\ \A t \in Tasks : C36_UnderWay(t, "refreshToken") ~> C36_Refreshed(t)
    /\ [](\A t \in Tasks :
            (task[t].pc = "done" /\ task[t].self # 0)
                => /\ task[t].op = "logout" => C36_LoggedOut(t)
                   /\ task[t].op = "refreshToken" => C36_Refreshed(t))

\* a refreshToken() resolved after its two requests, the session
\* authenticated with the token it was given
C36_Witness ==
    \E t \in Tasks :
        /\ C36_Refreshed(t)
        /\ task[t].outcome.state = "resolved"
        /\ task[t].requests = 2
        /\ AccessCookie(t) = task[t].accessToken

-----------------------------------------------------------------------------
(* C37 *)

\* C37: in the footer with show-user enabled, whenever its isAuthenticated
\* state is false its user and credits are null: an authenticated:false
\* event clears them and a response to a load started earlier by
\* loadUserData or loadCredits does not set them again.
C37_Original ==
    (footer.showUser /\ ~footer.isAuthenticated)
        => footer.user = Null /\ footer.credits = Null

====
